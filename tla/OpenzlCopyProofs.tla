-------------------------- MODULE OpenzlCopyProofs --------------------------
(***************************************************************************)
(* Theorems about COPY ... (FORMAT OPENZL), for any number of COPYs that   *)
(* share the registry of buffers, any options, tables and limits.          *)
(***************************************************************************)
EXTENDS OpenzlCopy, SequenceTheorems, TLAPS

\* Where the bytes of the current chunk have been taken from the staging
\* target, and where that chunk has been compressed too.
Compressed == {"appending", "finishing", "finished", "finishThrew", "ok"}
Taken == {"compressing", "retrying"} \cup Compressed

\* Who has what of the registry and which staging files there are.
RegistryInv ==
    /\ BufferIsOwn
    /\ \A c \in Copies :
          /\ path[c] < counter
          /\ InMemory(c) => stagingFile[c] = NoFile
          /\ ~ InMemory(c) /\ ChunkOpen(c) => stagingFile[c] \in Seq(Rows)
          /\ InMemory(c) /\ pc[c] \in Taken => path[c] \notin DOMAIN Buffers
          /\ pc[c] \in Compressed => stagingFile[c] = NoFile

StageInv == TypeOK /\ RegistryInv

-----------------------------------------------------------------------------
(* Types, buffers and staging files.                                       *)

\* Nothing is staged at first.
LEMMA InitStageInv == Init => StageInv
<1> SUFFICES ASSUME Init PROVE StageInv
  OBVIOUS
<1> USE CopyAssumption DEF Init
<1>1. TypeOK
  BY DEF TypeOK, Places, Rows
<1>2. RegistryInv
  BY DEF RegistryInv, BufferIsOwn, ChunkOpen, Taken, Compressed
<1> QED  BY <1>1, <1>2 DEF StageInv

\* The options are what CopyAssumption says of them.
LEMMA OptionTypes ==
    ASSUME TypeOK, NEW c \in Copies
    PROVE  /\ InMemory(c) \in BOOLEAN
           /\ bind_data[c].chunk_size_bytes \in Nat
           /\ MayFallBack(c) \in BOOLEAN
BY CopyAssumption DEF TypeOK, InMemory, MayFallBack

\* The staging target of an open chunk holds rows.
LEMMA StagedType ==
    ASSUME StageInv, NEW c \in Copies, ChunkOpen(c)
    PROVE  Staged(c) \in Seq(Rows)
BY OptionTypes DEF StageInv, TypeOK, RegistryInv, BufferIsOwn, Staged

\* A chunk that is started has a buffer that no COPY ever had, or the file.
LEMMA StartChunkStage ==
    ASSUME StageInv, NEW c \in Copies,
           OpenzlStartChunk(c), Goto(c, "sinking"), UNCHANGED bind_data
    PROVE  /\ path' \in [Copies -> Nat \cup {-1}]
           /\ stagingFile' \in [Copies -> Seq(Rows) \cup {NoFile}]
           /\ DOMAIN Buffers' \subseteq 0 .. counter' - 1 /\ counter' \in Nat
           /\ \A b \in DOMAIN Buffers' : Buffers'[b] \in Seq(Rows)
           /\ RegistryInv'
<1>0. /\ counter \in Nat /\ DOMAIN Buffers \subseteq 0 .. counter - 1
      /\ path \in [Copies -> Nat \cup {-1}]
      /\ stagingFile \in [Copies -> Seq(Rows) \cup {NoFile}]
      /\ \A b \in DOMAIN Buffers : Buffers[b] \in Seq(Rows)
      /\ pc' = [pc EXCEPT ![c] = "sinking"] /\ pc \in [Copies -> Places]
      /\ << >> \in Seq(Rows)
  BY DEF StageInv, TypeOK, Goto
<1>1. CASE InMemory(c)
  <2>1. /\ path' = [path EXCEPT ![c] = counter] /\ counter' = counter + 1
        /\ UNCHANGED stagingFile
        /\ DOMAIN Buffers' = DOMAIN Buffers \cup {counter}
        /\ \A b \in DOMAIN Buffers : Buffers'[b] = Buffers[b]
        /\ counter \notin DOMAIN Buffers /\ Buffers'[counter] = << >>
    BY <1>0, <1>1 DEF OpenBuffer, OpenzlStartChunk
  <2>2. BufferIsOwn'
    BY <1>0, <1>1, <2>1 DEF StageInv, RegistryInv, BufferIsOwn, InMemory, ChunkOpen
  <2>3. RegistryInv'
    BY <1>0, <1>1, <2>1, <2>2
       DEF StageInv, RegistryInv, InMemory, ChunkOpen, Taken, Compressed
  <2>4. /\ path' \in [Copies -> Nat \cup {-1}]
        /\ DOMAIN Buffers' \subseteq 0 .. counter' - 1 /\ counter' \in Nat
    BY <1>0, <2>1
  <2>5. \A b \in DOMAIN Buffers' : Buffers'[b] \in Seq(Rows)
    BY <1>0, <2>1
  <2> QED  BY <1>0, <2>1, <2>3, <2>4, <2>5
<1>2. CASE ~ InMemory(c)
  <2>1. stagingFile' = [stagingFile EXCEPT ![c] = << >>] /\ UNCHANGED << path, Buffers, counter >>
    BY <1>2 DEF registry, OpenzlStartChunk
  <2>2. BufferIsOwn'
    BY <1>0, <1>2, <2>1 DEF StageInv, RegistryInv, BufferIsOwn, InMemory, ChunkOpen
  <2>3. RegistryInv'
    BY <1>0, <1>2, <2>1, <2>2
       DEF StageInv, RegistryInv, InMemory, ChunkOpen, Taken, Compressed
  <2> QED  BY <1>0, <2>1, <2>3
<1> QED  BY <1>1, <1>2

\* What the parquet writer writes goes to the COPY's own staging target.
LEMMA WriteStagedStage ==
    ASSUME StageInv, NEW c \in Copies, NEW rs \in Seq(Rows), ChunkOpen(c),
           WriteStaged(c, rs), UNCHANGED << bind_data, path, counter >>,
           pc' = pc \/ Goto(c, "taking")
    PROVE  /\ stagingFile' \in [Copies -> Seq(Rows) \cup {NoFile}]
           /\ DOMAIN Buffers' = DOMAIN Buffers
           /\ \A b \in DOMAIN Buffers' : Buffers'[b] \in Seq(Rows)
           /\ RegistryInv'
<1> USE DEF StageInv, WriteStaged, Goto
<1>1. CASE InMemory(c)
  <2>1. /\ Buffers' = [Buffers EXCEPT ![path[c]] = Buffers[path[c]] \o rs]
        /\ UNCHANGED stagingFile /\ path[c] \in DOMAIN Buffers
    BY <1>1 DEF RegistryInv, BufferIsOwn
  <2>2. RegistryInv'
    BY <1>1, <2>1
       DEF RegistryInv, BufferIsOwn, TypeOK, InMemory, ChunkOpen, Taken, Compressed
  <2> QED  BY <2>1, <2>2 DEF TypeOK
<1>2. CASE ~ InMemory(c)
  <2>1. /\ stagingFile' = [stagingFile EXCEPT ![c] = stagingFile[c] \o rs]
        /\ UNCHANGED Buffers
        /\ stagingFile[c] \o rs \in Seq(Rows)
    BY <1>2 DEF RegistryInv
  <2>2. RegistryInv'
    BY <1>2, <2>1
       DEF RegistryInv, BufferIsOwn, TypeOK, InMemory, ChunkOpen, Taken, Compressed
  <2> QED  BY <2>1, <2>2 DEF TypeOK
<1> QED  BY <1>1, <1>2

\* A staging target is left as it is or removed.
LEMMA CloseStage ==
    ASSUME StageInv, NEW c \in Copies, NEW there \in Places \ {"sinking", "taking"},
           Goto(c, there), UNCHANGED << bind_data, path, registry >>,
           UNCHANGED stagingFile \/ RemoveStagingFile(c),
           there \in Taken => pc[c] \in Taken,
           there \in Compressed => pc[c] \in Compressed \/ RemoveStagingFile(c)
    PROVE  stagingFile' \in [Copies -> Seq(Rows) \cup {NoFile}] /\ RegistryInv'
<1>0. /\ pc' = [pc EXCEPT ![c] = there] /\ pc \in [Copies -> Places]
      /\ stagingFile \in [Copies -> Seq(Rows) \cup {NoFile}]
      /\ UNCHANGED << bind_data, path, Buffers, counter >>
  BY DEF StageInv, TypeOK, Goto, registry
<1>1. stagingFile' \in [Copies -> Seq(Rows) \cup {NoFile}]
  BY <1>0 DEF RemoveStagingFile
<1>2. \A d \in Copies : d # c => stagingFile'[d] = stagingFile[d] /\ pc'[d] = pc[d]
  BY <1>0 DEF RemoveStagingFile
<1>3. BufferIsOwn'
  BY <1>0, <1>2 DEF StageInv, RegistryInv, BufferIsOwn, InMemory, ChunkOpen
<1>4. ASSUME NEW d \in Copies
      PROVE  /\ path'[d] < counter'
             /\ InMemory(d)' => stagingFile'[d] = NoFile
             /\ ~ InMemory(d)' /\ ChunkOpen(d)' => stagingFile'[d] \in Seq(Rows)
             /\ InMemory(d)' /\ pc'[d] \in Taken => path'[d] \notin DOMAIN Buffers'
             /\ pc'[d] \in Compressed => stagingFile'[d] = NoFile
  <2>1. CASE d # c
    BY <1>0, <1>2, <2>1 DEF StageInv, RegistryInv, InMemory, ChunkOpen
  <2>2. CASE d = c
    <3>1. pc'[d] = there /\ (stagingFile'[d] = stagingFile[d] \/ stagingFile'[d] = NoFile)
      BY <1>0, <2>2 DEF RemoveStagingFile
    <3>2. there \in Compressed => stagingFile'[d] = NoFile
      BY <1>0, <2>2 DEF StageInv, RegistryInv, RemoveStagingFile
    <3> QED
      BY <1>0, <2>2, <3>1, <3>2 DEF StageInv, RegistryInv, InMemory, ChunkOpen
  <2> QED  BY <2>1, <2>2
<1> QED  BY <1>1, <1>3, <1>4 DEF RegistryInv

\* The buffer whose bytes have been taken belongs to nobody.
LEMMA TakeStagedStage ==
    ASSUME StageInv, NEW c \in Copies, TakeStaged(c)
    PROVE  /\ DOMAIN Buffers' \subseteq 0 .. counter - 1
           /\ \A b \in DOMAIN Buffers' : Buffers'[b] \in Seq(Rows)
           /\ RegistryInv'
<1>0. /\ pc' = [pc EXCEPT ![c] = "compressing"] /\ pc \in [Copies -> Places]
      /\ UNCHANGED << bind_data, path, stagingFile, counter >> /\ pc[c] = "taking"
      /\ DOMAIN Buffers \subseteq 0 .. counter - 1
      /\ \A b \in DOMAIN Buffers : Buffers[b] \in Seq(Rows)
  BY DEF StageInv, TypeOK, TakeStaged, Goto, At, source
<1>1. CASE InMemory(c)
  <2>1. /\ DOMAIN Buffers' = DOMAIN Buffers \ {path[c]}
        /\ \A b \in DOMAIN Buffers' : Buffers'[b] = Buffers[b]
    BY <1>1 DEF TakeStaged, TakeBuffer
  <2>2. BufferIsOwn'
    BY <1>0, <1>1, <2>1 DEF StageInv, RegistryInv, BufferIsOwn, InMemory, ChunkOpen
  <2>3. RegistryInv'
    BY <1>0, <1>1, <2>1, <2>2
       DEF StageInv, RegistryInv, InMemory, ChunkOpen, Taken, Compressed
  <2> QED  BY <1>0, <2>1, <2>3
<1>2. CASE ~ InMemory(c)
  <2>1. UNCHANGED Buffers
    BY <1>2 DEF TakeStaged
  <2>2. BufferIsOwn'
    BY <1>0, <1>2, <2>1 DEF StageInv, RegistryInv, BufferIsOwn, InMemory, ChunkOpen
  <2>3. RegistryInv'
    BY <1>0, <1>2, <2>1, <2>2
       DEF StageInv, RegistryInv, InMemory, ChunkOpen, Taken, Compressed
  <2> QED  BY <1>0, <2>1, <2>3
<1> QED  BY <1>1, <1>2

\* What is written to a target or its sibling is a file.
LEMMA OutputTypes ==
    ASSUME TypeOK, NEW c \in Copies, NEW f \in Seq(Seq(Rows)) \cup {NoFile, Partial},
           WriteOutput(c, f) \/ UNCHANGED output
    PROVE  /\ target' \in [Copies -> Seq(Seq(Rows)) \cup {NoFile, Partial, Before}]
           /\ tmpFile' \in [Copies -> Seq(Seq(Rows)) \cup {NoFile, Partial}]
BY DEF TypeOK, WriteOutput, output

\* A chunk that is appended moves from one sequence of rows to another.
LEMMA AppendTypes ==
    ASSUME TypeOK, NEW c \in Copies, AppendChunk(c)
    PROVE  /\ archive' \in [Copies -> Seq(Seq(Rows))]
           /\ canonical_bytes' \in [Copies -> Seq(Rows)]
           /\ target' \in [Copies -> Seq(Seq(Rows)) \cup {NoFile, Partial, Before}]
           /\ tmpFile' \in [Copies -> Seq(Seq(Rows)) \cup {NoFile, Partial}]
<1>1. Append(archive[c], canonical_bytes[c]) \in Seq(Seq(Rows))
  BY AppendProperties DEF TypeOK
<1>2. archive' \in [Copies -> Seq(Seq(Rows))] /\ canonical_bytes' \in [Copies -> Seq(Rows)]
  BY <1>1 DEF AppendChunk, TypeOK
<1> QED  BY <1>2, OutputTypes DEF AppendChunk

\* Every step keeps the types, the buffers and the staging files.
LEMMA StepStageInv ==
    ASSUME StageInv, NEW c \in Copies, Step(c)
    PROVE  StageInv'
<1> USE DEF At, source, parquet, output, counts
<1>a. TypeOK /\ RegistryInv
  BY DEF StageInv
<1>1. CASE OpenzlCopyInitGlobal(c)
  <2>1. TypeOK'
    BY <1>a, <1>1, StartChunkStage DEF OpenzlCopyInitGlobal, TypeOK, Goto, Places
  <2> QED  BY <1>1, <2>1, StartChunkStage DEF OpenzlCopyInitGlobal, StageInv
<1>2. CASE OpenzlCopySink(c)
  <2> DEFINE rs == Append(localState[c], sunk[c] + 1)
             w == IF Len(rs) >= RowGroup THEN rs ELSE << >>
  <2>1. rs \in Seq(Rows) /\ << >> \in Seq(Rows)
    BY <1>a, AppendProperties DEF TypeOK, Rows
  <2>2. w \in Seq(Rows)
    BY <2>1
  <2>3. WriteStaged(c, w) /\ UNCHANGED << bind_data, path, counter, pc >> /\ ChunkOpen(c)
    BY <1>2 DEF OpenzlCopySink, ChunkOpen
  <2>4. /\ stagingFile' \in [Copies -> Seq(Rows) \cup {NoFile}]
        /\ DOMAIN Buffers' = DOMAIN Buffers
        /\ \A b \in DOMAIN Buffers' : Buffers'[b] \in Seq(Rows)
        /\ RegistryInv'
    <3> HIDE DEF w
    <3> QED  BY <2>2, <2>3, WriteStagedStage
  <2>5. localState' \in [Copies -> Seq(Rows)] /\ sunk' \in [Copies -> Nat]
    BY <1>a, <1>2, <2>1 DEF OpenzlCopySink, TypeOK
  <2>6. TypeOK'
    BY <1>a, <1>2, <2>4, <2>5 DEF OpenzlCopySink, TypeOK
  <2> QED  BY <2>4, <2>6 DEF StageInv
<1>3. CASE RotateChunk(c) \/ OpenzlCopyFinalize(c)
  <2>1. CloseParquet(c) /\ pc[c] = "sinking"
    BY <1>3 DEF RotateChunk, OpenzlCopyFinalize
  <2>2. localState[c] \in Seq(Rows) /\ ChunkOpen(c)
    BY <1>a, <2>1 DEF TypeOK, ChunkOpen
  <2>3. /\ stagingFile' \in [Copies -> Seq(Rows) \cup {NoFile}]
        /\ DOMAIN Buffers' = DOMAIN Buffers
        /\ \A b \in DOMAIN Buffers' : Buffers'[b] \in Seq(Rows)
        /\ RegistryInv'
    BY <2>1, <2>2, WriteStagedStage DEF CloseParquet
  <2>4. /\ localState' \in [Copies -> Seq(Rows)] /\ pc' \in [Copies -> Places]
        /\ DOMAIN Buffers' \subseteq 0 .. counter' - 1 /\ counter' \in Nat
    BY <1>a, <2>1, <2>3 DEF CloseParquet, TypeOK, Goto, Places
  <2>5. TypeOK'
    BY <1>a, <2>1, <2>3, <2>4 DEF CloseParquet, TypeOK
  <2> QED  BY <2>3, <2>5 DEF StageInv
<1>4. CASE TakeStaged(c)
  <2>1. Staged(c) \in Seq(Rows)
    BY <1>4, StagedType DEF TakeStaged, ChunkOpen
  <2>2. TypeOK'
    BY <1>a, <1>4, <2>1, TakeStagedStage DEF TakeStaged, TypeOK, Goto, Places
  <2> QED  BY <1>4, <2>2, TakeStagedStage DEF StageInv
<1>5. CASE RefuseStaged(c) \/ CompressFails(c) \/ Throw(c)
  <2>1. /\ Goto(c, "threw") /\ UNCHANGED << source, parquet, path, canonical_bytes,
                                archive, output, registry, counts >>
        /\ UNCHANGED stagingFile \/ RemoveStagingFile(c)
    BY <1>5 DEF RefuseStaged, CompressFails, Throw
  <2>2. stagingFile' \in [Copies -> Seq(Rows) \cup {NoFile}] /\ RegistryInv'
    BY <2>1, CloseStage DEF Places, Taken, Compressed
  <2>3. TypeOK'
    BY <1>a, <2>1, <2>2 DEF TypeOK, Goto, Places, registry
  <2> QED  BY <2>2, <2>3 DEF StageInv
<1>6. CASE Compress(c) \/ FallBack(c) \/ CompressGeneric(c)
  <2>1. PICK there \in {"appending", "retrying"} :
           /\ Goto(c, there) /\ (there = "appending" => RemoveStagingFile(c))
           /\ UNCHANGED stagingFile \/ RemoveStagingFile(c)
    BY <1>6 DEF Compress, FallBack, CompressGeneric
  <2>2. /\ UNCHANGED << source, parquet, path, canonical_bytes, archive, output,
                        registry, countBefore >>
        /\ pc[c] \in {"compressing", "retrying"}
        /\ UNCHANGED g_fallback_chunks \/ g_fallback_chunks' = g_fallback_chunks + 1
        /\ UNCHANGED fellBack \/ fellBack' = [fellBack EXCEPT ![c] = fellBack[c] + 1]
    BY <1>6 DEF Compress, FallBack, CompressGeneric
  <2>3. stagingFile' \in [Copies -> Seq(Rows) \cup {NoFile}] /\ RegistryInv'
    BY <2>1, <2>2, CloseStage DEF Places, Taken, Compressed
  <2>4. /\ g_fallback_chunks' \in Nat /\ fellBack' \in [Copies -> Nat]
        /\ pc' \in [Copies -> Places]
    <3>1. pc \in [Copies -> Places] /\ g_fallback_chunks \in Nat /\ fellBack \in [Copies -> Nat]
      BY <1>a DEF TypeOK
    <3>2. pc' \in [Copies -> Places]
      BY <2>1, <3>1 DEF Goto, Places
    <3>3. g_fallback_chunks' \in Nat /\ fellBack' \in [Copies -> Nat]
      BY <2>2, <3>1
    <3> QED  BY <3>2, <3>3
  <2>5. UNCHANGED << rows, bind_data, sunk, localState, path, canonical_bytes, archive,
                     target, tmpFile, Buffers, counter, countBefore >>
    BY <1>6 DEF Compress, FallBack, CompressGeneric, registry
  <2>6. TypeOK'
    BY <1>a, <2>3, <2>4, <2>5 DEF TypeOK
  <2> QED  BY <2>3, <2>6 DEF StageInv
<1>7. CASE AppendThenStartChunk(c)
  <2>1. AppendChunk(c) /\ OpenzlStartChunk(c) /\ Goto(c, "sinking") /\ UNCHANGED bind_data
    BY <1>7 DEF AppendThenStartChunk, AppendChunk
  <2>2. TypeOK'
    BY <1>a, <2>1, AppendTypes, StartChunkStage DEF AppendChunk, TypeOK, Goto, Places
  <2> QED  BY <2>1, <2>2, StartChunkStage DEF StageInv
<1>8. CASE AppendLast(c) \/ AppendFails(c)
  <2>1. PICK there \in {"finishing", "threw"} : Goto(c, there)
    BY <1>8 DEF AppendLast, AppendFails
  <2>2. AppendChunk(c) /\ UNCHANGED << path, stagingFile, registry >> /\ pc[c] = "appending"
    BY <1>8 DEF AppendLast, AppendFails, AppendChunk
  <2>3. stagingFile' \in [Copies -> Seq(Rows) \cup {NoFile}] /\ RegistryInv'
    BY <2>1, <2>2, CloseStage DEF Places, Taken, Compressed, AppendChunk
  <2>4. TypeOK'
    BY <1>a, <2>1, <2>2, <2>3, AppendTypes DEF AppendChunk, TypeOK, Goto, Places, registry
  <2> QED  BY <2>3, <2>4 DEF StageInv
<1>9. CASE Finish(c) \/ FinishFails(c) \/ Succeed(c) \/ Destroy(c)
  <2>1. PICK there \in {"finished", "finishThrew", "ok", "error"} :
           /\ Goto(c, there)
           /\ there \in Taken => pc[c] \in Compressed
    BY <1>9 DEF Finish, FinishFails, Succeed, Destroy, Taken, Compressed
  <2>2. PICK f \in Seq(Seq(Rows)) \cup {NoFile, Partial} :
           WriteOutput(c, f) \/ UNCHANGED output
    BY <1>a, <1>9 DEF Finish, FinishFails, Succeed, Destroy, TypeOK
  <2>3. /\ UNCHANGED << source, sunk, path, stagingFile, registry, counts >>
        /\ UNCHANGED localState \/ localState' = [localState EXCEPT ![c] = << >>]
        /\ UNCHANGED archive \/ archive' = [archive EXCEPT ![c] = << >>]
        /\ UNCHANGED canonical_bytes
              \/ canonical_bytes' = [canonical_bytes EXCEPT ![c] = << >>]
    BY <1>9 DEF Finish, FinishFails, Succeed, Destroy
  <2>4. stagingFile' \in [Copies -> Seq(Rows) \cup {NoFile}] /\ RegistryInv'
    BY <2>1, <2>3, CloseStage DEF Places, Taken, Compressed
  <2>5. /\ localState' \in [Copies -> Seq(Rows)] /\ pc' \in [Copies -> Places]
        /\ archive' \in [Copies -> Seq(Seq(Rows))]
        /\ canonical_bytes' \in [Copies -> Seq(Rows)]
    <3>1. /\ pc \in [Copies -> Places] /\ localState \in [Copies -> Seq(Rows)]
          /\ archive \in [Copies -> Seq(Seq(Rows))]
          /\ canonical_bytes \in [Copies -> Seq(Rows)]
      BY <1>a DEF TypeOK
    <3>2. pc' \in [Copies -> Places]
      BY <2>1, <3>1 DEF Goto, Places
    <3>3. << >> \in Seq(Rows) /\ << >> \in Seq(Seq(Rows))
      OBVIOUS
    <3>4. localState' \in [Copies -> Seq(Rows)] /\ canonical_bytes' \in [Copies -> Seq(Rows)]
      BY <2>3, <3>1, <3>3
    <3>5. archive' \in [Copies -> Seq(Seq(Rows))]
      BY <2>3, <3>1, <3>3
    <3> QED  BY <3>2, <3>4, <3>5
  <2>6. /\ target' \in [Copies -> Seq(Seq(Rows)) \cup {NoFile, Partial, Before}]
        /\ tmpFile' \in [Copies -> Seq(Seq(Rows)) \cup {NoFile, Partial}]
    BY <1>a, <2>2, OutputTypes
  <2>7. UNCHANGED << rows, bind_data, sunk, path, stagingFile, Buffers, counter,
                     g_fallback_chunks, countBefore, fellBack >>
    BY <1>9 DEF Finish, FinishFails, Succeed, Destroy, registry
  <2>8. TypeOK'
    BY <1>a, <2>4, <2>5, <2>6, <2>7 DEF TypeOK
  <2> QED  BY <2>4, <2>8 DEF StageInv
<1>10. CASE MoveTmpFile(c)
  <2>1. TypeOK'
    BY <1>a, <1>10 DEF MoveTmpFile, TypeOK, registry
  <2>2. RegistryInv'
    BY <1>a, <1>10 DEF MoveTmpFile, RegistryInv, BufferIsOwn, InMemory, ChunkOpen, registry
  <2> QED  BY <2>1, <2>2 DEF StageInv
<1> QED
  BY <1>1, <1>2, <1>3, <1>4, <1>5, <1>6, <1>7, <1>8, <1>9, <1>10 DEF Step

-----------------------------------------------------------------------------
(* What a step does to the staging targets and to the other COPYs.         *)

\* A chunk starts with nothing staged.
LEMMA StartChunkStaged ==
    ASSUME StageInv, NEW c \in Copies, OpenzlStartChunk(c), UNCHANGED bind_data
    PROVE  Staged(c)' = << >>
<1>1. path \in [Copies -> Nat \cup {-1}] /\ stagingFile \in [Copies -> Seq(Rows) \cup {NoFile}]
      /\ counter \notin DOMAIN Buffers
  BY DEF StageInv, TypeOK
<1>2. CASE InMemory(c)
  <2>1. InMemory(c)' /\ path'[c] = counter /\ Buffers'[counter] = << >>
    BY <1>1, <1>2 DEF OpenzlStartChunk, OpenBuffer, InMemory
  <2> QED  BY <2>1 DEF Staged
<1>3. CASE ~ InMemory(c)
  BY <1>1, <1>3 DEF OpenzlStartChunk, Staged, InMemory
<1> QED  BY <1>2, <1>3

\* What is written is added to the rows that are staged.
LEMMA WriteStagedStaged ==
    ASSUME StageInv, NEW c \in Copies, ChunkOpen(c), NEW rs, WriteStaged(c, rs),
           UNCHANGED << bind_data, path >>
    PROVE  Staged(c)' = Staged(c) \o rs
<1>1. stagingFile \in [Copies -> Seq(Rows) \cup {NoFile}]
      /\ (InMemory(c) => path[c] \in DOMAIN Buffers)
  BY DEF StageInv, TypeOK, RegistryInv, BufferIsOwn
<1>2. CASE InMemory(c)
  <2>1. InMemory(c)' /\ Buffers'[path[c]] = Buffers[path[c]] \o rs
    BY <1>1, <1>2 DEF WriteStaged, InMemory
  <2> QED  BY <1>2, <2>1 DEF Staged
<1>3. CASE ~ InMemory(c)
  BY <1>1, <1>3 DEF WriteStaged, Staged, InMemory
<1> QED  BY <1>2, <1>3

\* The open chunk of a COPY is left alone by a step of another COPY.
LEMMA OthersStaged ==
    ASSUME StageInv, NEW c \in Copies, NEW d \in Copies \ {c}, ChunkOpen(d),
           UNCHANGED bind_data,
           \/ OpenzlStartChunk(c)
           \/ ChunkOpen(c) /\ UNCHANGED path /\ \E rs : WriteStaged(c, rs)
           \/ ChunkOpen(c) /\ InMemory(c) /\ TakeBuffer(path[c])
                /\ UNCHANGED << path, stagingFile >>
           \/ UNCHANGED << path, registry >>
                /\ (UNCHANGED stagingFile \/ RemoveStagingFile(c))
    PROVE  Staged(d)' = Staged(d)
<1>1. /\ path \in [Copies -> Nat \cup {-1}]
      /\ stagingFile \in [Copies -> Seq(Rows) \cup {NoFile}]
      /\ counter \notin DOMAIN Buffers
      /\ InMemory(d) => path[d] \in DOMAIN Buffers
      /\ InMemory(d) /\ InMemory(c) /\ ChunkOpen(c) =>
            path[d] # path[c] /\ path[c] \in DOMAIN Buffers
  BY DEF StageInv, TypeOK, RegistryInv, BufferIsOwn
<1>2. InMemory(d)' = InMemory(d)
  BY DEF InMemory
<1>3. CASE OpenzlStartChunk(c)
  <2>1. path'[d] = path[d] /\ stagingFile'[d] = stagingFile[d]
    BY <1>1, <1>3 DEF OpenzlStartChunk
  <2>2. InMemory(d) => Buffers'[path[d]] = Buffers[path[d]]
    BY <1>1, <1>3 DEF OpenzlStartChunk, OpenBuffer, registry
  <2> QED  BY <1>2, <2>1, <2>2 DEF Staged
<1>4. CASE ChunkOpen(c) /\ UNCHANGED path /\ \E rs : WriteStaged(c, rs)
  <2>1. PICK rs : WriteStaged(c, rs)
    BY <1>4
  <2>2. stagingFile'[d] = stagingFile[d]
    BY <1>1, <2>1 DEF WriteStaged
  <2>3. InMemory(d) => Buffers'[path[d]] = Buffers[path[d]]
    BY <1>1, <1>4, <2>1 DEF WriteStaged
  <2> QED  BY <1>2, <1>4, <2>2, <2>3 DEF Staged
<1>5. CASE ChunkOpen(c) /\ InMemory(c) /\ TakeBuffer(path[c]) /\ UNCHANGED << path, stagingFile >>
  <2>1. InMemory(d) => Buffers'[path[d]] = Buffers[path[d]]
    BY <1>1, <1>5 DEF TakeBuffer
  <2> QED  BY <1>2, <1>5, <2>1 DEF Staged
<1>6. CASE UNCHANGED << path, registry >> /\ (UNCHANGED stagingFile \/ RemoveStagingFile(c))
  <2>1. stagingFile'[d] = stagingFile[d]
    BY <1>1, <1>6 DEF RemoveStagingFile
  <2> QED  BY <1>2, <1>6, <2>1 DEF Staged, registry
<1> QED  BY <1>3, <1>4, <1>5, <1>6

\* All that a COPY has of its own, the rows in its staging target included.
Kept(d) ==
    /\ UNCHANGED << rows[d], bind_data[d], pc[d], sunk[d], localState[d],
                    canonical_bytes[d], archive[d], target[d], tmpFile[d],
                    countBefore[d], fellBack[d] >>
    /\ ChunkOpen(d) => UNCHANGED Staged(d)

\* A step of one COPY takes nothing from another.
LEMMA OthersKept ==
    ASSUME StageInv, NEW c \in Copies, Step(c), NEW d \in Copies \ {c}
    PROVE  Kept(d)
<1> USE DEF source, parquet, output, counts
<1>1. UNCHANGED << rows, bind_data >>
  BY DEF Step, OpenzlCopyInitGlobal, OpenzlCopySink, RotateChunk, OpenzlCopyFinalize,
         CloseParquet, TakeStaged, RefuseStaged, Compress, FallBack, CompressGeneric,
         CompressFails, AppendThenStartChunk, AppendLast, AppendFails, AppendChunk,
         Finish, FinishFails, MoveTmpFile, Succeed, Throw, Destroy
<1>2. UNCHANGED << pc[d], sunk[d], localState[d], countBefore[d], fellBack[d] >>
  BY DEF StageInv, TypeOK, Goto, Step, OpenzlCopyInitGlobal, OpenzlCopySink, RotateChunk,
         OpenzlCopyFinalize, CloseParquet, TakeStaged, RefuseStaged, Compress, FallBack,
         CompressGeneric, CompressFails, AppendThenStartChunk, AppendLast, AppendFails,
         AppendChunk, Finish, FinishFails, MoveTmpFile, Succeed, Throw, Destroy
<1>3. UNCHANGED << canonical_bytes[d], archive[d], target[d], tmpFile[d] >>
  BY DEF StageInv, TypeOK, WriteOutput, Step, OpenzlCopyInitGlobal, OpenzlCopySink,
         RotateChunk, OpenzlCopyFinalize, CloseParquet, TakeStaged, RefuseStaged, Compress,
         FallBack, CompressGeneric, CompressFails, AppendThenStartChunk, AppendLast,
         AppendFails, AppendChunk, Finish, FinishFails, MoveTmpFile, Succeed, Throw, Destroy
<1>4. ASSUME ChunkOpen(d) PROVE UNCHANGED Staged(d)
  <2>1. CASE OpenzlCopyInitGlobal(c) \/ AppendThenStartChunk(c)
    BY <1>1, <1>4, <2>1, OthersStaged DEF OpenzlCopyInitGlobal, AppendThenStartChunk
  <2>2. CASE OpenzlCopySink(c) \/ RotateChunk(c) \/ OpenzlCopyFinalize(c)
    <3>1. ChunkOpen(c) /\ UNCHANGED path /\ \E rs : WriteStaged(c, rs)
      BY <2>2 DEF OpenzlCopySink, RotateChunk, OpenzlCopyFinalize, CloseParquet, ChunkOpen, At
    <3> QED  BY <1>1, <1>4, <3>1, OthersStaged
  <2>3. CASE TakeStaged(c)
    <3>1. /\ ChunkOpen(c) /\ UNCHANGED << path, stagingFile, counter >>
          /\ IF InMemory(c) THEN TakeBuffer(path[c]) ELSE UNCHANGED Buffers
      BY <2>3 DEF TakeStaged, ChunkOpen, At
    <3> QED  BY <1>1, <1>4, <3>1, OthersStaged DEF registry
  <2>4. CASE \/ RefuseStaged(c) \/ Compress(c) \/ FallBack(c) \/ CompressGeneric(c)
             \/ CompressFails(c) \/ AppendLast(c) \/ AppendFails(c) \/ Finish(c)
             \/ FinishFails(c) \/ MoveTmpFile(c) \/ Succeed(c) \/ Throw(c) \/ Destroy(c)
    <3>1. /\ UNCHANGED << path, registry >>
          /\ UNCHANGED stagingFile \/ RemoveStagingFile(c)
      BY <2>4 DEF RefuseStaged, Compress, FallBack, CompressGeneric, CompressFails,
                  AppendLast, AppendFails, Finish, FinishFails, MoveTmpFile, Succeed,
                  Throw, Destroy
    <3> QED  BY <1>1, <1>4, <3>1, OthersStaged
  <2> QED  BY <2>1, <2>2, <2>3, <2>4 DEF Step
<1> QED  BY <1>1, <1>2, <1>3, <1>4 DEF Kept

-----------------------------------------------------------------------------
(* The fallbacks that are counted.                                         *)

\* The count is ahead of a COPY's own while the COPY retries a chunk.
CountInv ==
    \A c \in Copies :
        /\ At(c, "bound") => fellBack[c] = 0
        /\ ~ At(c, "bound") =>
              g_fallback_chunks - countBefore[c]
                  >= fellBack[c] + (IF At(c, "retrying") THEN 1 ELSE 0)

\* Each fallback of a COPY is counted once and before it is done.
LEMMA StepCountInv ==
    ASSUME StageInv, CountInv, NEW c \in Copies, Step(c)
    PROVE  CountInv'
<1> USE DEF At, counts
<1>1. /\ g_fallback_chunks \in Nat /\ countBefore \in [Copies -> Nat]
      /\ fellBack \in [Copies -> Nat] /\ pc \in [Copies -> Places]
  BY DEF StageInv, TypeOK
<1>2. CASE OpenzlCopyInitGlobal(c)
  BY <1>1, <1>2 DEF CountInv, OpenzlCopyInitGlobal, Goto
<1>3. CASE FallBack(c)
  BY <1>1, <1>3 DEF CountInv, FallBack, Goto
<1>4. CASE CompressGeneric(c)
  BY <1>1, <1>4 DEF CountInv, CompressGeneric, Goto
<1>5. CASE ~ OpenzlCopyInitGlobal(c) /\ ~ FallBack(c) /\ ~ CompressGeneric(c)
  <2>1. UNCHANGED counts /\ pc[c] # "bound"
    BY <1>5 DEF Step, OpenzlCopySink, RotateChunk, OpenzlCopyFinalize, CloseParquet,
                TakeStaged, RefuseStaged, Compress, CompressFails, AppendThenStartChunk,
                AppendLast, AppendFails, AppendChunk, Finish, FinishFails, MoveTmpFile,
                Succeed, Throw, Destroy
  <2>2. \/ UNCHANGED pc /\ pc[c] # "retrying"
        \/ \E there \in Places \ {"bound", "retrying"} : Goto(c, there)
    BY <1>5 DEF Step, OpenzlCopySink, RotateChunk, OpenzlCopyFinalize, CloseParquet,
                TakeStaged, RefuseStaged, Compress, CompressFails, AppendThenStartChunk,
                AppendLast, AppendFails, AppendChunk, Finish, FinishFails, MoveTmpFile,
                Succeed, Throw, Destroy, Places
  <2> QED  BY <1>1, <2>1, <2>2 DEF CountInv, Goto
<1> QED  BY <1>2, <1>3, <1>4, <1>5

-----------------------------------------------------------------------------
(* FlattenSeq is defined by a recursion over the length of its argument.   *)
(* That the recursion has exactly one solution for the chunks appended so  *)
(* far is part of the invariant: each chunk carries it one step further.   *)

Steps(s, f) == f = [i \in 1 .. Len(s) |-> IF i = 1 THEN s[i] ELSE f[i - 1] \o s[i]]
Flattens(s) == s = << >> \/ \E f : \A g : Steps(s, g) <=> g = f

\* The solution's last value is what FlattenSeq returns.
LEMMA FlattenLast ==
    ASSUME NEW s, s # <<>>, Len(s) \in Nat \ {0}, NEW f, \A g : Steps(s, g) <=> g = f
    PROVE  FlattenSeq(s) = f[Len(s)]
<1>1. f = CHOOSE g : Steps(s, g)
  OBVIOUS
<1>2. FlattenSeq(s) = (CHOOSE g : Steps(s, g))[Len(s)]
  BY SMT DEF FlattenSeq, Steps
<1> QED  BY <1>1, <1>2

\* What a solution is at each index.
LEMMA StepsAre ==
    ASSUME NEW s, NEW g, Steps(s, g)
    PROVE  /\ DOMAIN g = 1 .. Len(s)
           /\ g = [i \in 1 .. Len(s) |-> g[i]]
           /\ \A i \in 1 .. Len(s) : g[i] = IF i = 1 THEN s[i] ELSE g[i - 1] \o s[i]
<1> DEFINE e == [i \in 1 .. Len(s) |-> IF i = 1 THEN s[i] ELSE g[i - 1] \o s[i]]
<1>1. g = e
  BY DEF Steps
<1>2. /\ DOMAIN e = 1 .. Len(s)
      /\ e = [i \in 1 .. Len(s) |-> e[i]]
      /\ \A i \in 1 .. Len(s) : e[i] = IF i = 1 THEN s[i] ELSE g[i - 1] \o s[i]
  OBVIOUS
<1> HIDE DEF e
<1> QED  BY <1>1, <1>2

\* Another sequence at the end: the recursion still has one solution, and its
\* last value grows by that sequence.
LEMMA FlattenAppend ==
    ASSUME NEW T, NEW s \in Seq(Seq(T)), Flattens(s), NEW x \in Seq(T),
           FlattenSeq(s) \in Seq(T)
    PROVE  /\ Flattens(Append(s, x))
           /\ FlattenSeq(Append(s, x)) = FlattenSeq(s) \o x
<1> DEFINE t == Append(s, x)
<1>1. /\ t # << >> /\ Len(t) = Len(s) + 1 /\ t[Len(t)] = x
      /\ \A i \in 1 .. Len(s) : t[i] = s[i]
      /\ Len(s) \in Nat
  BY AppendProperties, LenProperties
<1> SUFFICES Flattens(t) /\ FlattenSeq(t) = FlattenSeq(s) \o x
  OBVIOUS
<1> HIDE DEF t
<1>2. CASE s = << >>
  <2> DEFINE f == [i \in 1 .. 1 |-> x]
  <2>1. Len(t) = 1 /\ t[1] = x
    BY <1>1, <1>2
  <2>2. \A g : Steps(t, g) <=> g = f
    BY <2>1 DEF Steps
  <2>3. FlattenSeq(t) = f[1]
    <3> HIDE DEF f
    <3> QED  BY <1>1, <2>1, <2>2, FlattenLast
  <2>4. FlattenSeq(s) = << >>
    BY <1>2 DEF FlattenSeq
  <2>5. Flattens(t)
    BY <2>2 DEF Flattens
  <2> QED  BY <2>3, <2>4, <2>5
<1>3. CASE s # << >>
  <2>1. PICK f : \A g : Steps(s, g) <=> g = f
    BY <1>3 DEF Flattens
  <2>2. Len(s) \in Nat \ {0} /\ Steps(s, f)
    BY <1>3, <2>1, EmptySeq
  <2> DEFINE h == [i \in 1 .. Len(t) |-> IF i = Len(t) THEN f[Len(s)] \o x ELSE f[i]]
  <2>3. Steps(t, h)
    <3> SUFFICES ASSUME NEW i \in 1 .. Len(t)
                 PROVE  h[i] = IF i = 1 THEN t[i] ELSE h[i - 1] \o t[i]
      BY DEF Steps
    <3>1. CASE i = Len(t)
      <4>1. h[i] = f[Len(s)] \o x /\ i # 1 /\ i - 1 = Len(s) /\ h[i - 1] = f[i - 1]
        BY <1>1, <2>2, <3>1
      <4> QED  BY <1>1, <3>1, <4>1
    <3>2. CASE i # Len(t)
      <4>1. i \in 1 .. Len(s) /\ h[i] = f[i] /\ t[i] = s[i]
        BY <1>1, <3>2
      <4>2. f[i] = IF i = 1 THEN s[i] ELSE f[i - 1] \o s[i]
        BY <2>2, <4>1, StepsAre
      <4>3. i # 1 => h[i - 1] = f[i - 1]
        BY <1>1, <4>1
      <4> QED  BY <4>1, <4>2, <4>3
    <3> QED  BY <3>1, <3>2
  <2>4. ASSUME NEW g, Steps(t, g) PROVE g = h
    <3> DEFINE g0 == [i \in 1 .. Len(s) |-> g[i]]
    <3>1. \A i \in 1 .. Len(t) : g[i] = IF i = 1 THEN t[i] ELSE g[i - 1] \o t[i]
      BY <2>4, StepsAre
    <3>2. ASSUME NEW i \in 1 .. Len(s)
          PROVE  g0[i] = IF i = 1 THEN s[i] ELSE g0[i - 1] \o s[i]
      <4>1. g[i] = IF i = 1 THEN t[i] ELSE g[i - 1] \o t[i]
        BY <1>1, <3>1
      <4> QED  BY <1>1, <4>1
    <3>3. Steps(s, g0)
      BY <3>2 DEF Steps
    <3>4. g0 = f
      BY <2>1, <3>3
    <3>5. \A i \in 1 .. Len(s) : g[i] = f[i]
      BY <3>4
    <3>6. g[Len(t)] = f[Len(s)] \o x
      <4>1. /\ Len(t) \in 1 .. Len(t) /\ Len(t) # 1 /\ Len(t) - 1 = Len(s)
            /\ Len(s) \in 1 .. Len(s)
        BY <1>1, <2>2
      <4>2. g[Len(t)] = g[Len(t) - 1] \o t[Len(t)]
        BY <3>1, <4>1
      <4> QED  BY <1>1, <3>5, <4>1, <4>2
    <3>7. ASSUME NEW i \in 1 .. Len(t) PROVE g[i] = h[i]
      <4>1. i # Len(t) => i \in 1 .. Len(s)
        BY <1>1
      <4> QED  BY <3>5, <3>6, <4>1
    <3>8. g = [i \in 1 .. Len(t) |-> g[i]]
      BY <2>4, StepsAre
    <3> QED  BY <3>7, <3>8
  <2>5. \A g : Steps(t, g) <=> g = h
    BY <2>3, <2>4
  <2>6. FlattenSeq(s) = f[Len(s)]
    BY <1>3, <2>1, <2>2, FlattenLast
  <2>8. FlattenSeq(t) = h[Len(t)]
    <3>1. Len(t) \in Nat \ {0}
      BY <1>1
    <3> HIDE DEF h
    <3> QED  BY <1>1, <2>5, <3>1, FlattenLast
  <2>7. Flattens(t)
    BY <2>5 DEF Flattens
  <2> QED  BY <1>1, <2>6, <2>7, <2>8
<1> QED  BY <1>2, <1>3

-----------------------------------------------------------------------------
(* Where the rows of a table are.                                          *)

Compressing == {"compressing", "retrying", "appending"}
Failed == {"threw", "finishThrew", "error"}
Done == {"finishing", "finished", "ok"}

Numbers(n) == [i \in 1 .. n |-> i]

Conserved(c) ==
    FlattenSeq(archive[c]) \o canonical_bytes[c]
        \o (IF ChunkOpen(c) THEN Staged(c) ELSE << >>) \o localState[c]
    = Numbers(sunk[c])

\* Which of the places that rows pass through are empty.
PlaceOf(c) ==
    /\ At(c, "bound") => sunk[c] = 0 /\ localState[c] = << >> /\ archive[c] = << >>
    /\ pc[c] \notin Compressing \cup Failed => canonical_bytes[c] = << >>
    /\ pc[c] \notin {"sinking"} \cup Failed => localState[c] = << >>
    /\ sunk[c] <= rows[c]
    /\ pc[c] \in Done => sunk[c] = rows[c]

RowsOf(c) ==
    /\ PlaceOf(c)
    /\ Flattens(archive[c]) /\ FlattenSeq(archive[c]) \in Seq(Rows)
    /\ pc[c] \notin {"bound"} \cup Failed => Conserved(c)

RowsInv == \A c \in Copies : RowsOf(c)

\* One more row.
LEMMA NextNumber ==
    ASSUME NEW n \in Nat
    PROVE  Numbers(n) \in Seq(Rows) /\ Append(Numbers(n), n + 1) = Numbers(n + 1)
<1>1. Numbers(n) \in Seq(Rows) /\ Len(Numbers(n)) = n
  BY DEF Numbers, Rows
<1>2. Numbers(n + 1) \in Seq(Rows) /\ Len(Numbers(n + 1)) = n + 1
  BY DEF Numbers, Rows
<1>3. n + 1 \in Rows
  BY DEF Rows
<1>4. /\ Append(Numbers(n), n + 1) \in Seq(Rows)
      /\ Len(Append(Numbers(n), n + 1)) = n + 1
      /\ \A i \in 1 .. n + 1 : Append(Numbers(n), n + 1)[i] = Numbers(n + 1)[i]
  BY <1>1, <1>3, AppendProperties DEF Numbers
<1> QED  BY <1>1, <1>2, <1>4, SeqEqual

\* A row that is sunk comes last, whether it stays in the local state or the
\* row group is flushed with it.
LEMMA SinkRows ==
    ASSUME NEW a \in Seq(Rows), NEW s \in Seq(Rows), NEW l \in Seq(Rows), NEW n \in Nat,
           a \o << >> \o s \o l = Numbers(n)
    PROVE  /\ a \o << >> \o (s \o << >>) \o Append(l, n + 1) = Numbers(n + 1)
           /\ a \o << >> \o (s \o Append(l, n + 1)) \o << >> = Numbers(n + 1)
<1>1. n + 1 \in Rows /\ << n + 1 >> \in Seq(Rows)
  BY DEF Rows
<1>2. Append(l, n + 1) = l \o << n + 1 >> /\ Append(l, n + 1) \in Seq(Rows)
  BY <1>1, AppendIsConcat, AppendProperties
<1>3. a \o << >> = a /\ s \o << >> = s /\ a \o s \in Seq(Rows)
  BY ConcatEmptySeq, ConcatProperties
<1>4. Append(Numbers(n), n + 1) = Numbers(n) \o << n + 1 >>
  BY <1>1, NextNumber, AppendIsConcat
<1>5. (a \o s) \o Append(l, n + 1) = Numbers(n + 1)
  <2>1. (a \o s) \o l = Numbers(n)
    BY <1>3
  <2>2. (a \o s) \o (l \o << n + 1 >>) = ((a \o s) \o l) \o << n + 1 >>
    BY <1>1, <1>3, ConcatAssociative
  <2> QED  BY <1>2, <1>4, <2>1, <2>2, NextNumber
<1>6. /\ a \o (s \o Append(l, n + 1)) = Numbers(n + 1)
      /\ a \o (s \o Append(l, n + 1)) \in Seq(Rows)
  <2>1. \A r \in Seq(Rows) : a \o (s \o r) = (a \o s) \o r
    BY ConcatAssociative
  <2>2. Numbers(n + 1) \in Seq(Rows)
    BY NextNumber
  <2> QED  BY <1>2, <1>5, <2>1, <2>2
<1> QED  BY <1>3, <1>5, <1>6, ConcatEmptySeq

\* Closing the parquet file moves the local state to the staging target.
LEMMA CloseRows ==
    ASSUME NEW a \in Seq(Rows), NEW s \in Seq(Rows), NEW l \in Seq(Rows)
    PROVE  a \o << >> \o (s \o l) \o << >> = a \o << >> \o s \o l
<1>1. a \o << >> = a /\ s \o l \in Seq(Rows)
  BY ConcatEmptySeq, ConcatProperties
<1>2. a \o (s \o l) \in Seq(Rows) /\ a \o (s \o l) = (a \o s) \o l
  BY <1>1, ConcatAssociative, ConcatProperties
<1> QED  BY <1>1, <1>2, ConcatEmptySeq

\* What is staged is taken, and what has been compressed is appended.
LEMMA MoveRows ==
    ASSUME NEW a \in Seq(Rows), NEW s \in Seq(Rows)
    PROVE  /\ a \o s \o << >> \o << >> = a \o << >> \o s \o << >>
           /\ (a \o s) \o << >> \o << >> \o << >> = a \o s \o << >> \o << >>
<1>1. a \o << >> = a /\ a \o s \in Seq(Rows)
  BY ConcatEmptySeq, ConcatProperties
<1> QED  BY <1>1, ConcatEmptySeq

\* A chunk that is appended adds its rows to those of the archive.
LEMMA AppendRows ==
    ASSUME StageInv, NEW c \in Copies, RowsOf(c), AppendChunk(c)
    PROVE  /\ Flattens(archive'[c]) /\ FlattenSeq(archive'[c]) \in Seq(Rows)
           /\ FlattenSeq(archive'[c]) = FlattenSeq(archive[c]) \o canonical_bytes[c]
           /\ canonical_bytes'[c] = << >>
<1>1. /\ archive[c] \in Seq(Seq(Rows)) /\ canonical_bytes[c] \in Seq(Rows)
      /\ archive'[c] = Append(archive[c], canonical_bytes[c])
      /\ canonical_bytes'[c] = << >>
      /\ Flattens(archive[c]) /\ FlattenSeq(archive[c]) \in Seq(Rows)
  BY DEF StageInv, TypeOK, RowsOf, AppendChunk
<1>2. FlattenSeq(archive[c]) \o canonical_bytes[c] \in Seq(Rows)
  BY <1>1, ConcatProperties
<1>3. /\ Flattens(Append(archive[c], canonical_bytes[c]))
      /\ FlattenSeq(Append(archive[c], canonical_bytes[c]))
             = FlattenSeq(archive[c]) \o canonical_bytes[c]
  BY <1>1, FlattenAppend
<1> QED  BY <1>1, <1>2, <1>3

\* What a COPY keeps of its own keeps its rows where they are.
LEMMA KeptRows ==
    ASSUME NEW d, RowsOf(d), Kept(d)
    PROVE  RowsOf(d)'
<1>1. UNCHANGED << rows[d], pc[d], sunk[d], localState[d], canonical_bytes[d], archive[d] >>
  BY DEF Kept
<1>2. PlaceOf(d)'
  BY <1>1 DEF RowsOf, PlaceOf, At
<1>3. Flattens(archive[d])' /\ FlattenSeq(archive'[d]) \in Seq(Rows)
  BY <1>1 DEF RowsOf
<1>4. Conserved(d) => Conserved(d)'
  <2>1. ChunkOpen(d)' = ChunkOpen(d) /\ (ChunkOpen(d) => Staged(d)' = Staged(d))
    BY <1>1 DEF Kept, ChunkOpen
  <2> QED  BY <1>1, <2>1 DEF Conserved
<1> QED  BY <1>1, <1>2, <1>3, <1>4 DEF RowsOf

\* A step moves rows on or leaves them.
LEMMA StepRows ==
    ASSUME StageInv, NEW c \in Copies, RowsOf(c), Step(c)
    PROVE  RowsOf(c)'
<1> USE DEF At, source, parquet, output, counts
<1>a. /\ sunk \in [Copies -> Nat] /\ localState \in [Copies -> Seq(Rows)]
      /\ pc \in [Copies -> Places] /\ canonical_bytes \in [Copies -> Seq(Rows)]
      /\ archive \in [Copies -> Seq(Seq(Rows))] /\ rows \in [Copies -> Nat]
      /\ << >> \in Seq(Rows)
  <2>1. /\ sunk \in [Copies -> Nat] /\ localState \in [Copies -> Seq(Rows)]
        /\ pc \in [Copies -> Places] /\ canonical_bytes \in [Copies -> Seq(Rows)]
        /\ archive \in [Copies -> Seq(Seq(Rows))] /\ rows \in [Copies -> RowCounts]
    BY DEF StageInv, TypeOK
  <2>2. rows \in [Copies -> Nat]
    <3>1. RowCounts \subseteq Nat /\ rows \in [Copies -> RowCounts]
      BY <2>1, CopyAssumption
    <3> QED  BY <3>1
  <2>3. << >> \in Seq(Rows)
    OBVIOUS
  <2> QED  BY <2>1, <2>2, <2>3
<1>b. /\ Flattens(archive[c]) /\ FlattenSeq(archive[c]) \in Seq(Rows)
      /\ PlaceOf(c) /\ (pc[c] \notin {"bound"} \cup Failed => Conserved(c))
  BY DEF RowsOf
<1>c. ASSUME archive'[c] = archive[c]
      PROVE  Flattens(archive[c])' /\ FlattenSeq(archive'[c]) \in Seq(Rows)
  BY <1>b, <1>c
<1>1. CASE OpenzlCopyInitGlobal(c)
  <2>1. /\ UNCHANGED << rows, bind_data, sunk, localState, canonical_bytes, archive >>
        /\ OpenzlStartChunk(c) /\ pc'[c] = "sinking" /\ pc[c] = "bound"
    BY <1>a, <1>1 DEF OpenzlCopyInitGlobal, Goto
  <2>2. PlaceOf(c)'
    BY <1>a, <1>b, <2>1 DEF PlaceOf, Compressing, Failed, Done
  <2>3. Conserved(c)'
    <3>1. /\ archive'[c] = << >> /\ canonical_bytes'[c] = << >>
          /\ localState'[c] = << >> /\ sunk'[c] = 0
      BY <1>b, <2>1 DEF PlaceOf, Compressing, Failed
    <3>2. Staged(c)' = << >>
      BY <2>1, StartChunkStaged
    <3>3. FlattenSeq(<< >>) = << >> /\ Numbers(0) = << >>
      BY DEF FlattenSeq, Numbers
    <3>4. << >> \o << >> \o << >> \o << >> = << >>
      BY <1>a, ConcatEmptySeq
    <3> QED  BY <3>1, <3>2, <3>3, <3>4 DEF Conserved
  <2> QED  BY <1>c, <2>1, <2>2, <2>3 DEF RowsOf
<1>2. CASE OpenzlCopySink(c)
  <2> DEFINE rs == Append(localState[c], sunk[c] + 1)
             w == IF Len(rs) >= RowGroup THEN rs ELSE << >>
  <2>1. /\ UNCHANGED << rows, bind_data, pc, path, canonical_bytes, archive >>
        /\ pc[c] = "sinking" /\ sunk[c] < rows[c]
        /\ sunk'[c] = sunk[c] + 1 /\ WriteStaged(c, w)
        /\ localState'[c] = IF Len(rs) >= RowGroup THEN << >> ELSE rs
    BY <1>a, <1>2 DEF OpenzlCopySink
  <2>2. PlaceOf(c)'
    BY <1>a, <1>b, <2>1 DEF PlaceOf, Compressing, Failed, Done
  <2>3. Conserved(c)'
    <3>1. ChunkOpen(c) /\ ChunkOpen(c)' /\ canonical_bytes[c] = << >>
      BY <1>b, <2>1 DEF ChunkOpen, PlaceOf, Compressing, Failed
    <3>2. Staged(c) \in Seq(Rows) /\ localState[c] \in Seq(Rows) /\ sunk[c] \in Nat
      BY <1>a, <3>1, StagedType
    <3>3. FlattenSeq(archive[c]) \o << >> \o Staged(c) \o localState[c] = Numbers(sunk[c])
      BY <1>b, <2>1, <3>1 DEF Conserved, Failed
    <3>4. /\ FlattenSeq(archive[c]) \o << >> \o (Staged(c) \o << >>) \o rs
                = Numbers(sunk[c] + 1)
          /\ FlattenSeq(archive[c]) \o << >> \o (Staged(c) \o rs) \o << >>
                = Numbers(sunk[c] + 1)
      BY <1>b, <3>2, <3>3, SinkRows
    <3>5. Staged(c)' = Staged(c) \o w
      <4> HIDE DEF w
      <4> QED  BY <2>1, <3>1, WriteStagedStaged
    <3> HIDE DEF rs
    <3> QED  BY <2>1, <3>1, <3>4, <3>5 DEF Conserved
  <2> QED  BY <1>c, <2>1, <2>2, <2>3 DEF RowsOf
<1>3. CASE RotateChunk(c) \/ OpenzlCopyFinalize(c)
  <2>1. /\ UNCHANGED << rows, bind_data, sunk, path, canonical_bytes, archive >>
        /\ pc[c] = "sinking" /\ pc'[c] = "taking" /\ WriteStaged(c, localState[c])
        /\ localState'[c] = << >>
    BY <1>a, <1>3 DEF RotateChunk, OpenzlCopyFinalize, CloseParquet, Goto
  <2>2. PlaceOf(c)'
    BY <1>a, <1>b, <2>1 DEF PlaceOf, Compressing, Failed, Done
  <2>3. Conserved(c)'
    <3>1. ChunkOpen(c) /\ ChunkOpen(c)' /\ canonical_bytes[c] = << >>
      BY <1>b, <2>1 DEF ChunkOpen, PlaceOf, Compressing, Failed
    <3>2. Staged(c) \in Seq(Rows)
      BY <3>1, StagedType
    <3>3. FlattenSeq(archive[c]) \o << >> \o Staged(c) \o localState[c] = Numbers(sunk[c])
      BY <1>b, <2>1, <3>1 DEF Conserved, Failed
    <3>4. FlattenSeq(archive[c]) \o << >> \o (Staged(c) \o localState[c]) \o << >>
             = Numbers(sunk[c])
      <4>1. localState[c] \in Seq(Rows) /\ FlattenSeq(archive[c]) \in Seq(Rows)
        BY <1>a, <1>b
      <4> QED  BY <3>2, <3>3, <4>1, CloseRows
    <3>5. Staged(c)' = Staged(c) \o localState[c]
      BY <2>1, <3>1, WriteStagedStaged
    <3> QED  BY <2>1, <3>1, <3>4, <3>5 DEF Conserved
  <2> QED  BY <1>c, <2>1, <2>2, <2>3 DEF RowsOf
<1>4. CASE TakeStaged(c)
  <2>1. /\ UNCHANGED << rows, sunk, localState, archive >>
        /\ pc[c] = "taking" /\ pc'[c] = "compressing" /\ canonical_bytes'[c] = Staged(c)
    BY <1>a, <1>4 DEF TakeStaged, Goto
  <2>2. PlaceOf(c)'
    BY <1>a, <1>b, <2>1 DEF PlaceOf, Compressing, Failed, Done
  <2>3. Conserved(c)'
    <3>1. /\ ChunkOpen(c) /\ ~ ChunkOpen(c)'
          /\ canonical_bytes[c] = << >> /\ localState[c] = << >>
      BY <1>b, <2>1 DEF ChunkOpen, PlaceOf, Compressing, Failed
    <3>2. Staged(c) \in Seq(Rows)
      BY <3>1, StagedType
    <3>3. FlattenSeq(archive[c]) \o << >> \o Staged(c) \o << >> = Numbers(sunk[c])
      BY <1>b, <2>1, <3>1 DEF Conserved, Failed
    <3>4. FlattenSeq(archive[c]) \o Staged(c) \o << >> \o << >> = Numbers(sunk[c])
      BY <1>b, <3>2, <3>3, MoveRows
    <3> QED  BY <2>1, <3>1, <3>4 DEF Conserved
  <2> QED  BY <1>c, <2>1, <2>2, <2>3 DEF RowsOf
<1>5. CASE \/ Compress(c) \/ FallBack(c) \/ CompressGeneric(c)
           \/ Finish(c) \/ MoveTmpFile(c) \/ Succeed(c)
  <2>1. /\ UNCHANGED << rows, sunk, localState, canonical_bytes, archive >>
        /\ \/ pc[c] \in Compressing /\ pc'[c] \in Compressing
           \/ pc[c] \in Done /\ pc'[c] \in Done
    BY <1>a, <1>5 DEF Compress, FallBack, CompressGeneric, Finish, MoveTmpFile, Succeed,
                      Goto, Compressing, Done
  <2>2. PlaceOf(c)'
    BY <1>a, <1>b, <2>1 DEF PlaceOf, Compressing, Failed, Done
  <2>3. Conserved(c)'
    BY <1>b, <2>1 DEF Conserved, ChunkOpen, Compressing, Failed, Done
  <2> QED  BY <1>c, <2>1, <2>2, <2>3 DEF RowsOf
<1>6. CASE AppendThenStartChunk(c) \/ AppendLast(c)
  <2>1. /\ UNCHANGED << rows, bind_data, sunk, localState >> /\ AppendChunk(c)
        /\ pc[c] = "appending"
        /\ \/ pc'[c] = "sinking" /\ OpenzlStartChunk(c)
           \/ pc'[c] = "finishing" /\ sunk[c] = rows[c]
    BY <1>a, <1>6 DEF AppendThenStartChunk, AppendLast, AppendChunk, Goto
  <2>2. /\ Flattens(archive'[c]) /\ FlattenSeq(archive'[c]) \in Seq(Rows)
        /\ FlattenSeq(archive'[c]) = FlattenSeq(archive[c]) \o canonical_bytes[c]
        /\ canonical_bytes'[c] = << >>
    BY <2>1, AppendRows
  <2>3. PlaceOf(c)'
    BY <1>a, <1>b, <2>1, <2>2 DEF PlaceOf, Compressing, Failed, Done
  <2>4. Conserved(c)'
    <3>1. ~ ChunkOpen(c) /\ localState[c] = << >>
      BY <1>b, <2>1 DEF ChunkOpen, PlaceOf, Failed
    <3>2. (IF ChunkOpen(c)' THEN Staged(c)' ELSE << >>) = << >>
      BY <2>1, StartChunkStaged DEF ChunkOpen
    <3>3. FlattenSeq(archive[c]) \o canonical_bytes[c] \o << >> \o << >> = Numbers(sunk[c])
      BY <1>b, <2>1, <3>1 DEF Conserved, Failed
    <3>4. (FlattenSeq(archive[c]) \o canonical_bytes[c]) \o << >> \o << >> \o << >>
             = Numbers(sunk[c])
      BY <1>a, <1>b, <3>3, MoveRows
    <3> QED  BY <2>1, <2>2, <3>1, <3>2, <3>4 DEF Conserved
  <2> QED  BY <2>2, <2>3, <2>4 DEF RowsOf
<1>7. CASE \/ RefuseStaged(c) \/ CompressFails(c) \/ FinishFails(c) \/ Throw(c)
           \/ AppendFails(c) \/ Destroy(c)
  <2>1. UNCHANGED << rows, sunk >> /\ pc'[c] \in Failed
    BY <1>a, <1>7 DEF RefuseStaged, CompressFails, FinishFails, Throw, AppendFails, AppendChunk,
                      Destroy, Goto, Failed
  <2>2. PlaceOf(c)'
    BY <1>a, <1>b, <2>1 DEF PlaceOf, Failed, Done
  <2>3. Flattens(archive'[c]) /\ FlattenSeq(archive'[c]) \in Seq(Rows)
    <3>1. CASE AppendFails(c)
      BY <3>1, AppendRows DEF AppendFails
    <3>2. CASE Destroy(c)
      <4>1. archive'[c] = << >>
        BY <1>a, <3>2 DEF Destroy
      <4> QED  BY <1>a, <4>1 DEF Flattens, FlattenSeq
    <3>3. CASE RefuseStaged(c) \/ CompressFails(c) \/ FinishFails(c) \/ Throw(c)
      <4>1. archive'[c] = archive[c]
        BY <3>3 DEF RefuseStaged, CompressFails, FinishFails, Throw
      <4> QED  BY <1>c, <4>1
    <3> QED  BY <1>7, <3>1, <3>2, <3>3
  <2> QED  BY <2>1, <2>2, <2>3 DEF RowsOf
<1> QED  BY <1>1, <1>2, <1>3, <1>4, <1>5, <1>6, <1>7 DEF Step

-----------------------------------------------------------------------------
(* How large the chunks are.                                               *)

Size(c) == bind_data[c].chunk_size_bytes

\* Only the first chunk of a COPY may be empty, and then it is the last too.
NotEmpty(c, bytes) == bytes # << >> \/ (sunk[c] = rows[c] /\ archive[c] = << >>)

\* While a chunk is staged, its rows that DuckDB's writer still keeps count too.
StagedOf(c) ==
    /\ At(c, "sinking") =>
          /\ Len(localState[c]) < RowGroup
          /\ Len(Staged(c)) + Len(localState[c]) < Size(c) + RowGroup
          /\ archive[c] # << >> =>
                sunk[c] < rows[c] \/ Staged(c) # << >> \/ localState[c] # << >>
    /\ At(c, "taking") =>
          Len(Staged(c)) < Size(c) + RowGroup /\ NotEmpty(c, Staged(c))

ChunksOf(c) ==
    /\ pc[c] \in Compressing =>
          /\ Len(canonical_bytes[c]) < Size(c) + RowGroup
          /\ NotEmpty(c, canonical_bytes[c])
    /\ \A i \in 1 .. Len(archive[c]) :
          /\ Len(archive[c][i]) < Size(c) + RowGroup
          /\ Len(archive[c]) > 1 \/ pc[c] \in {"sinking", "taking"} \cup Compressing
               => archive[c][i] # << >>

SizesOf(c) == Size(c) > 0 => StagedOf(c) /\ ChunksOf(c)

SizesInv == \A c \in Copies : SizesOf(c)

\* What a COPY keeps of its own keeps the sizes of its chunks.
LEMMA KeptSizes ==
    ASSUME NEW d, SizesOf(d), Kept(d)
    PROVE  SizesOf(d)'
<1>1. UNCHANGED << rows[d], bind_data[d], pc[d], sunk[d], localState[d],
                   canonical_bytes[d], archive[d] >>
  BY DEF Kept
<1>2. At(d, "sinking") \/ At(d, "taking") => Staged(d)' = Staged(d)
  BY DEF Kept, ChunkOpen, At
<1>3. StagedOf(d) => StagedOf(d)'
  BY <1>1, <1>2 DEF StagedOf, NotEmpty, Size, At
<1>4. ChunksOf(d) => ChunksOf(d)'
  BY <1>1 DEF ChunksOf, NotEmpty, Size
<1> QED  BY <1>1, <1>3, <1>4 DEF SizesOf, Size

\* The chunks of the archive with one more.
LEMMA AppendSizes ==
    ASSUME StageInv, NEW c \in Copies, ChunksOf(c), Size(c) > 0, AppendChunk(c),
           archive[c] # << >> \/ sunk[c] < rows[c] => canonical_bytes[c] # << >>
    PROVE  \A i \in 1 .. Len(archive'[c]) :
              /\ Len(archive'[c][i]) < Size(c) + RowGroup
              /\ Len(archive'[c]) > 1 \/ sunk[c] < rows[c] => archive'[c][i] # << >>
<1>1. /\ archive[c] \in Seq(Seq(Rows)) /\ canonical_bytes[c] \in Seq(Rows)
      /\ archive'[c] = Append(archive[c], canonical_bytes[c]) /\ pc[c] = "appending"
  BY DEF StageInv, TypeOK, AppendChunk, At
<1>2. /\ Len(archive'[c]) = Len(archive[c]) + 1 /\ Len(archive[c]) \in Nat
      /\ archive'[c][Len(archive[c]) + 1] = canonical_bytes[c]
      /\ \A i \in 1 .. Len(archive[c]) : archive'[c][i] = archive[c][i]
      /\ Len(archive[c]) > 0 => archive[c] # << >>
  BY <1>1, AppendProperties, EmptySeq
<1>3. ASSUME NEW i \in 1 .. Len(archive[c])
      PROVE  Len(archive'[c][i]) < Size(c) + RowGroup /\ archive'[c][i] # << >>
  BY <1>1, <1>2 DEF ChunksOf, Compressing
<1>4. /\ Len(canonical_bytes[c]) < Size(c) + RowGroup
      /\ Len(archive'[c]) > 1 \/ sunk[c] < rows[c] => canonical_bytes[c] # << >>
  BY <1>1, <1>2 DEF ChunksOf, Compressing
<1> QED  BY <1>2, <1>3, <1>4

\* A step keeps the chunks within their bounds.
LEMMA StepSizes ==
    ASSUME StageInv, NEW c \in Copies, RowsOf(c), SizesOf(c), Step(c)
    PROVE  SizesOf(c)'
<1> USE DEF At, source, parquet, output, counts
<1>a. /\ sunk \in [Copies -> Nat] /\ localState \in [Copies -> Seq(Rows)]
      /\ pc \in [Copies -> Places] /\ canonical_bytes \in [Copies -> Seq(Rows)]
      /\ archive \in [Copies -> Seq(Seq(Rows))]
  BY DEF StageInv, TypeOK
<1>b. RowGroup \in Nat \ {0} /\ Size(c) \in Nat /\ rows[c] \in Nat /\ sunk[c] \in Nat
  <2>1. RowCounts \subseteq Nat /\ rows[c] \in RowCounts /\ RowGroup \in Nat \ {0}
    BY CopyAssumption DEF StageInv, TypeOK
  <2>2. Size(c) \in Nat
    BY OptionTypes DEF Size, StageInv
  <2> QED  BY <1>a, <2>1, <2>2
<1>c. UNCHANGED << rows, bind_data >> /\ Size(c)' = Size(c)
  BY DEF Step, OpenzlCopyInitGlobal, OpenzlCopySink, RotateChunk, OpenzlCopyFinalize,
         CloseParquet, TakeStaged, RefuseStaged, Compress, FallBack, CompressGeneric,
         CompressFails, AppendThenStartChunk, AppendLast, AppendFails, AppendChunk,
         Finish, FinishFails, MoveTmpFile, Succeed, Throw, Destroy, Size
<1> SUFFICES ASSUME Size(c) > 0 PROVE StagedOf(c)' /\ ChunksOf(c)'
  BY <1>c DEF SizesOf
<1>d. StagedOf(c) /\ ChunksOf(c) /\ PlaceOf(c)
  BY DEF SizesOf, RowsOf
<1>1. CASE OpenzlCopyInitGlobal(c)
  <2>1. /\ pc'[c] = "sinking" /\ localState'[c] = << >> /\ archive'[c] = << >>
        /\ OpenzlStartChunk(c)
    BY <1>a, <1>d, <1>1 DEF OpenzlCopyInitGlobal, Goto, PlaceOf
  <2>2. Staged(c)' = << >>
    BY <1>c, <2>1, StartChunkStaged
  <2>3. StagedOf(c)'
    BY <1>b, <1>c, <2>1, <2>2 DEF StagedOf
  <2>4. ChunksOf(c)'
    BY <2>1 DEF ChunksOf, Compressing
  <2> QED  BY <2>3, <2>4
<1>2. CASE OpenzlCopySink(c)
  <2> DEFINE rs == Append(localState[c], sunk[c] + 1)
             w == IF Len(rs) >= RowGroup THEN rs ELSE << >>
  <2>1. /\ UNCHANGED << pc, path, canonical_bytes, archive >>
        /\ pc[c] = "sinking" /\ ~ NeedsNewChunk(c) /\ WriteStaged(c, w)
        /\ localState'[c] = IF Len(rs) >= RowGroup THEN << >> ELSE rs
    BY <1>a, <1>2 DEF OpenzlCopySink
  <2>2. ChunkOpen(c) /\ Staged(c) \in Seq(Rows)
    BY <2>1, StagedType DEF ChunkOpen
  <2>3. Staged(c)' = Staged(c) \o w
    <3> HIDE DEF w
    <3> QED  BY <1>c, <2>1, <2>2, WriteStagedStaged
  <2>4. Len(Staged(c)) < Size(c)
    <3>1. Len(Staged(c)) \in Nat
      BY <2>2, LenProperties
    <3> QED  BY <1>b, <2>1, <3>1 DEF NeedsNewChunk, Size
  <2>5. rs \in Seq(Rows) /\ Len(rs) = Len(localState[c]) + 1 /\ rs # << >>
    <3>1. localState[c] \in Seq(Rows) /\ sunk[c] + 1 \in Rows
      BY <1>a, <1>b DEF Rows
    <3> QED  BY <3>1, AppendProperties
  <2>6. Len(rs) <= RowGroup /\ Len(rs) \in Nat
    <3>1. Len(localState[c]) < RowGroup /\ Len(localState[c]) \in Nat
      BY <1>a, <1>d, <2>1, LenProperties DEF StagedOf
    <3> QED  BY <1>b, <2>5, <3>1
  <2>7. /\ Len(localState'[c]) < RowGroup
        /\ Len(Staged(c)') + Len(localState'[c]) < Size(c) + RowGroup
        /\ Staged(c)' # << >> \/ localState'[c] # << >>
    <3> HIDE DEF rs
    <3>1. CASE Len(rs) >= RowGroup
      <4>1. Staged(c)' = Staged(c) \o rs /\ localState'[c] = << >>
        BY <2>1, <2>3, <3>1
      <4>2. Len(Staged(c) \o rs) = Len(Staged(c)) + Len(rs) /\ Len(Staged(c)) \in Nat
        BY <2>2, <2>5, ConcatProperties, LenProperties
      <4>3. Len(<< >>) = 0
        OBVIOUS
      <4>4. Staged(c) \o rs # << >>
        BY <1>b, <2>6, <3>1, <4>2, <4>3
      <4> QED  BY <1>b, <2>4, <2>6, <4>1, <4>2, <4>3, <4>4
    <3>2. CASE ~ (Len(rs) >= RowGroup)
      <4>1. Staged(c)' = Staged(c) /\ localState'[c] = rs
        BY <2>1, <2>2, <2>3, <3>2, ConcatEmptySeq
      <4>2. Len(Staged(c)) \in Nat
        BY <2>2, LenProperties
      <4> QED  BY <1>b, <2>4, <2>5, <2>6, <3>2, <4>1, <4>2
    <3> QED  BY <3>1, <3>2
  <2>8. StagedOf(c)'
    BY <1>c, <2>1, <2>7 DEF StagedOf
  <2>9. ChunksOf(c)'
    BY <1>c, <1>d, <2>1 DEF ChunksOf, Compressing
  <2> QED  BY <2>8, <2>9
<1>3. CASE RotateChunk(c) \/ OpenzlCopyFinalize(c)
  <2>1. /\ UNCHANGED << sunk, path, canonical_bytes, archive >>
        /\ pc[c] = "sinking" /\ pc'[c] = "taking" /\ WriteStaged(c, localState[c])
        /\ NeedsNewChunk(c) \/ sunk[c] = rows[c]
    BY <1>a, <1>3 DEF RotateChunk, OpenzlCopyFinalize, CloseParquet, Goto
  <2>2. /\ ChunkOpen(c) /\ Staged(c) \in Seq(Rows) /\ localState[c] \in Seq(Rows)
        /\ Len(Staged(c)) \in Nat
    BY <1>a, <2>1, StagedType, LenProperties DEF ChunkOpen
  <2>3. Staged(c)' = Staged(c) \o localState[c]
    BY <1>c, <2>1, <2>2, WriteStagedStaged
  <2>4. /\ Len(Staged(c) \o localState[c]) = Len(Staged(c)) + Len(localState[c])
        /\ Staged(c) \o localState[c] = << >> => Staged(c) = << >> /\ localState[c] = << >>
    BY <2>2, ConcatProperties, ConcatEqualIffEmpty
  <2>5. NeedsNewChunk(c) => Staged(c) # << >>
    <3>1. Len(<< >>) = 0
      OBVIOUS
    <3> QED  BY <1>b, <3>1 DEF NeedsNewChunk, Size
  <2>6. NotEmpty(c, Staged(c) \o localState[c])
    BY <1>b, <1>d, <2>1, <2>4, <2>5 DEF StagedOf, NotEmpty
  <2>7. Len(Staged(c) \o localState[c]) < Size(c) + RowGroup
    BY <1>d, <2>1, <2>4 DEF StagedOf
  <2>8. StagedOf(c)'
    BY <1>c, <2>1, <2>3, <2>6, <2>7 DEF StagedOf, NotEmpty
  <2>9. ChunksOf(c)'
    BY <1>c, <1>d, <2>1 DEF ChunksOf, Compressing
  <2> QED  BY <2>8, <2>9
<1>4. CASE TakeStaged(c)
  <2>1. /\ UNCHANGED << sunk, archive >> /\ pc[c] = "taking" /\ pc'[c] = "compressing"
        /\ canonical_bytes'[c] = Staged(c)
    BY <1>a, <1>4 DEF TakeStaged, Goto
  <2>2. StagedOf(c)'
    BY <2>1 DEF StagedOf
  <2>3. ChunksOf(c)'
    BY <1>c, <1>d, <2>1 DEF ChunksOf, StagedOf, NotEmpty, Compressing
  <2> QED  BY <2>2, <2>3
<1>5. CASE \/ RefuseStaged(c) \/ Compress(c) \/ FallBack(c) \/ CompressGeneric(c)
           \/ CompressFails(c) \/ Finish(c) \/ FinishFails(c) \/ MoveTmpFile(c)
           \/ Succeed(c) \/ Throw(c)
  <2>1. /\ UNCHANGED << sunk, canonical_bytes, archive >>
        /\ \/ pc[c] \in Compressing /\ pc'[c] \in Compressing
           \/ pc'[c] \in Done \cup Failed
    BY <1>a, <1>5 DEF RefuseStaged, Compress, FallBack, CompressGeneric, CompressFails,
                      Finish, FinishFails, MoveTmpFile, Succeed, Throw, Goto,
                      Compressing, Done, Failed
  <2>2. StagedOf(c)'
    BY <2>1 DEF StagedOf, Compressing, Done, Failed
  <2>3. ChunksOf(c)'
    BY <1>c, <1>d, <2>1 DEF ChunksOf, NotEmpty, Compressing, Done, Failed
  <2> QED  BY <2>2, <2>3
<1>6. CASE AppendThenStartChunk(c) \/ AppendLast(c) \/ AppendFails(c)
  <2>1. /\ AppendChunk(c) /\ UNCHANGED << sunk, localState >> /\ pc[c] = "appending"
        /\ \/ pc'[c] = "sinking" /\ OpenzlStartChunk(c) /\ sunk[c] < rows[c]
           \/ pc'[c] = "finishing" /\ sunk[c] = rows[c]
           \/ pc'[c] = "threw"
    BY <1>a, <1>6 DEF AppendThenStartChunk, AppendLast, AppendFails, AppendChunk, Goto
  <2>2. archive[c] # << >> \/ sunk[c] < rows[c] => canonical_bytes[c] # << >>
    BY <1>b, <1>d, <2>1 DEF ChunksOf, NotEmpty, Compressing
  <2>3. \A i \in 1 .. Len(archive'[c]) :
           /\ Len(archive'[c][i]) < Size(c) + RowGroup
           /\ Len(archive'[c]) > 1 \/ sunk[c] < rows[c] => archive'[c][i] # << >>
    BY <1>d, <2>1, <2>2, AppendSizes
  <2>4. StagedOf(c)'
    <3>1. CASE pc'[c] = "sinking"
      <4>1. Staged(c)' = << >>
        BY <1>c, <2>1, <3>1, StartChunkStaged
      <4>2. localState'[c] = << >>
        BY <1>d, <2>1 DEF PlaceOf, Failed
      <4>3. sunk'[c] < rows'[c]
        BY <1>c, <2>1, <3>1
      <4> QED  BY <1>b, <1>c, <3>1, <4>1, <4>2, <4>3 DEF StagedOf
    <3>2. CASE pc'[c] # "sinking"
      BY <2>1, <3>2 DEF StagedOf
    <3> QED  BY <3>1, <3>2
  <2>5. ChunksOf(c)'
    BY <1>c, <2>1, <2>3 DEF ChunksOf, Compressing
  <2> QED  BY <2>4, <2>5
<1>7. CASE Destroy(c)
  <2>1. archive'[c] = << >> /\ pc'[c] = "error"
    BY <1>a, <1>7 DEF Destroy, Goto
  <2> QED  BY <2>1 DEF StagedOf, ChunksOf, Compressing
<1> QED  BY <1>1, <1>2, <1>3, <1>4, <1>5, <1>6, <1>7 DEF Step

-----------------------------------------------------------------------------
(* What is at the target, and at the sibling that may be written instead.  *)

OutOf(c) ==
    /\ pc[c] \notin {"finished", "ok"} =>
          \/ target[c] = Before /\ tmpFile[c] \in {NoFile, Partial}
          \/ target[c] \in {NoFile, Partial} /\ tmpFile[c] = NoFile
    /\ At(c, "finished") =>
          \/ target[c] = archive[c] /\ tmpFile[c] = NoFile
          \/ target[c] = Before /\ tmpFile[c] = archive[c]
    /\ At(c, "ok") => target[c] = archive[c]

OutInv == \A c \in Copies : OutOf(c)

\* An archive that a COPY has written is none of the files it may replace.
LEMMA FilesAreNew ==
    ASSUME NEW f \in Seq(Seq(Rows))
    PROVE  f \notin {NoFile, Partial, Before}
<1>1. Rows \subseteq Nat
  BY DEF Rows
<1>2. Seq(Rows) \subseteq Seq(Nat)
  BY <1>1, SeqMonotonic
<1>3. f \in Seq(Seq(Nat))
  BY <1>2, SeqMonotonic
<1> QED  BY <1>3, CopyAssumption

\* Nor is one that it is writing.
LEMMA ArchiveIsNew ==
    ASSUME StageInv, NEW c \in Copies
    PROVE  archive[c] \in Seq(Seq(Rows)) /\ archive[c] \notin {NoFile, Partial, Before}
BY FilesAreNew DEF StageInv, TypeOK

\* What a COPY keeps of its own keeps its output.
LEMMA KeptOut ==
    ASSUME NEW d, OutOf(d), Kept(d)
    PROVE  OutOf(d)'
BY DEF OutOf, Kept, At

\* The output is a part of an archive until Finish.
LEMMA StepOut ==
    ASSUME StageInv, NEW c \in Copies, OutOf(c), Step(c)
    PROVE  OutOf(c)'
<1> USE DEF At, source, parquet, output, counts
<1>a. /\ pc \in [Copies -> Places] /\ DOMAIN target = Copies /\ DOMAIN tmpFile = Copies
      /\ Before \notin {NoFile, Partial} /\ archive[c] \notin {NoFile, Partial, Before}
  BY CopyAssumption, ArchiveIsNew DEF StageInv, TypeOK
<1>1. CASE Finish(c)
  <2>1. /\ UNCHANGED archive /\ pc[c] = "finishing" /\ pc'[c] = "finished"
        /\ WriteOutput(c, archive[c])
    BY <1>a, <1>1 DEF Finish, Goto
  <2> QED  BY <1>a, <2>1 DEF OutOf, WriteOutput
<1>2. CASE MoveTmpFile(c)
  <2>1. /\ UNCHANGED << archive, pc >> /\ pc[c] = "finished" /\ tmpFile[c] # NoFile
        /\ target'[c] = tmpFile[c] /\ tmpFile'[c] = NoFile
    BY <1>a, <1>2 DEF MoveTmpFile
  <2> QED  BY <1>a, <2>1 DEF OutOf
<1>3. CASE Succeed(c)
  <2>1. /\ UNCHANGED << archive, target, tmpFile >> /\ pc[c] = "finished"
        /\ pc'[c] = "ok" /\ tmpFile[c] = NoFile
    BY <1>a, <1>3 DEF Succeed, Goto
  <2> QED  BY <1>a, <2>1 DEF OutOf
<1>4. CASE ~ Finish(c) /\ ~ MoveTmpFile(c) /\ ~ Succeed(c)
  <2>1. pc[c] \notin {"finished", "ok"} /\ pc'[c] \notin {"finished", "ok"}
    BY <1>a, <1>4 DEF Step, OpenzlCopyInitGlobal, OpenzlCopySink, RotateChunk,
         OpenzlCopyFinalize, CloseParquet, TakeStaged, RefuseStaged, Compress, FallBack,
         CompressGeneric, CompressFails, AppendThenStartChunk, AppendLast, AppendFails,
         AppendChunk, FinishFails, Throw, Destroy, Goto
  <2>2. UNCHANGED output \/ WriteOutput(c, Partial) \/ WriteOutput(c, NoFile)
    BY <1>4 DEF Step, OpenzlCopyInitGlobal, OpenzlCopySink, RotateChunk,
         OpenzlCopyFinalize, CloseParquet, TakeStaged, RefuseStaged, Compress, FallBack,
         CompressGeneric, CompressFails, AppendThenStartChunk, AppendLast, AppendFails,
         AppendChunk, FinishFails, Throw, Destroy
  <2> QED  BY <1>a, <2>1, <2>2 DEF OutOf, WriteOutput
<1> QED  BY <1>1, <1>2, <1>3, <1>4

-----------------------------------------------------------------------------
(* The inductive invariant and what follows from it.                       *)

IInv == StageInv /\ CountInv /\ RowsInv /\ SizesInv /\ OutInv

\* No COPY has done anything at first.
LEMMA InitIInv == Init => IInv
<1> SUFFICES ASSUME Init PROVE IInv
  OBVIOUS
<1>1. StageInv
  BY InitStageInv
<1>2. CountInv
  BY DEF Init, CountInv, At
<1>3. RowsInv
  <2> SUFFICES ASSUME NEW c \in Copies PROVE RowsOf(c)
    BY DEF RowsInv
  <2>1. /\ pc[c] = "bound" /\ sunk[c] = 0 /\ localState[c] = << >> /\ archive[c] = << >>
        /\ canonical_bytes[c] = << >> /\ rows[c] \in RowCounts
    BY DEF Init
  <2>2. rows[c] \in Nat
    BY <2>1, CopyAssumption
  <2>3. PlaceOf(c)
    BY <2>1, <2>2 DEF PlaceOf, At, Done
  <2>4. Flattens(archive[c]) /\ FlattenSeq(archive[c]) \in Seq(Rows)
    BY <2>1 DEF Flattens, FlattenSeq
  <2> QED  BY <2>1, <2>3, <2>4 DEF RowsOf
<1>4. SizesInv
  BY DEF Init, SizesInv, SizesOf, StagedOf, ChunksOf, At, Compressing
<1>5. OutInv
  BY DEF Init, OutInv, OutOf, At
<1> QED  BY <1>1, <1>2, <1>3, <1>4, <1>5 DEF IInv

\* A step of one COPY, which leaves what the others have of their own.
LEMMA StepIInv ==
    ASSUME IInv, NEW c \in Copies, Step(c)
    PROVE  IInv'
<1>1. StageInv' /\ CountInv'
  BY StepStageInv, StepCountInv DEF IInv
<1>2. ASSUME NEW d \in Copies PROVE RowsOf(d)' /\ SizesOf(d)' /\ OutOf(d)'
  <2>1. StageInv /\ RowsOf(d) /\ SizesOf(d) /\ OutOf(d)
    BY DEF IInv, RowsInv, SizesInv, OutInv
  <2>2. CASE d = c
    BY <2>1, <2>2, StepRows, StepSizes, StepOut
  <2>3. CASE d # c
    <3>1. Kept(d)
      BY <2>1, <2>3, OthersKept
    <3> QED  BY <2>1, <3>1, KeptRows, KeptSizes, KeptOut
  <2> QED  BY <2>2, <2>3
<1>3. RowsInv' /\ SizesInv' /\ OutInv'
  BY <1>2 DEF RowsInv, SizesInv, OutInv
<1> QED  BY <1>1, <1>3 DEF IInv

\* Nothing changes when every COPY has ended.
LEMMA StutterIInv ==
    ASSUME IInv, UNCHANGED vars
    PROVE  IInv'
<1>1. UNCHANGED << rows, bind_data, pc, sunk, localState, path, canonical_bytes, archive,
                   target, tmpFile, stagingFile, Buffers, counter, g_fallback_chunks,
                   countBefore, fellBack >>
  BY DEF vars, source, parquet, registry, output, counts
<1>2. TypeOK'
  BY <1>1 DEF IInv, StageInv, TypeOK
<1>3. RegistryInv'
  BY <1>1 DEF IInv, StageInv, RegistryInv, BufferIsOwn, InMemory, ChunkOpen
<1>4. CountInv'
  BY <1>1 DEF IInv, CountInv, At
<1>5. ASSUME NEW d \in Copies PROVE RowsOf(d)' /\ SizesOf(d)' /\ OutOf(d)'
  <2>1. RowsOf(d) /\ SizesOf(d) /\ OutOf(d)
    BY DEF IInv, RowsInv, SizesInv, OutInv
  <2>2. Kept(d)
    BY <1>1 DEF Kept, Staged, InMemory
  <2> QED  BY <2>1, <2>2, KeptRows, KeptSizes, KeptOut
<1>6. RowsInv' /\ SizesInv' /\ OutInv'
  BY <1>5 DEF RowsInv, SizesInv, OutInv
<1> QED  BY <1>2, <1>3, <1>4, <1>6 DEF IInv, StageInv

\* The invariant holds throughout.
LEMMA NextIInv == IInv /\ [Next]_vars => IInv'
<1> SUFFICES ASSUME IInv, [Next]_vars PROVE IInv'
  OBVIOUS
<1>1. ASSUME NEW c \in Copies, Step(c) PROVE IInv'
  BY <1>1, StepIInv
<1>2. CASE UNCHANGED vars
  BY <1>2, StutterIInv
<1> QED  BY <1>1, <1>2 DEF Next, AllEnded

\* The state is one the code can be in.
THEOREM CopyTypeOK == Spec => []TypeOK
<1>1. IInv => TypeOK
  BY DEF IInv, StageInv
<1> QED  BY InitIInv, NextIInv, <1>1, PTL DEF Spec

\* However many COPYs share the registry, and whatever becomes of each, the
\* buffer of an open chunk is in it and is nobody else's.
THEOREM CopyBufferIsOwn == Spec => []BufferIsOwn
<1>1. IInv => BufferIsOwn
  BY DEF IInv, StageInv, RegistryInv
<1> QED  BY InitIInv, NextIInv, <1>1, PTL DEF Spec

\* Neither the staging file of a chunk nor its buffer outlives its compression.
THEOREM CopyChunkLeavesNoStaging == Spec => []ChunkLeavesNoStaging
<1>1. IInv => ChunkLeavesNoStaging
  BY DEF IInv, StageInv, RegistryInv, ChunkLeavesNoStaging, Compressed, Taken
<1> QED  BY InitIInv, NextIInv, <1>1, PTL DEF Spec

\* openzl_fallback_chunks() never misses a chunk that a COPY stored with the
\* generic graph.
THEOREM CopyFallbacksCounted == Spec => []FallbacksCounted
<1>1. IInv => FallbacksCounted
  <2> SUFFICES ASSUME IInv, NEW c \in Copies, ~ At(c, "bound")
               PROVE  g_fallback_chunks - countBefore[c] >= fellBack[c]
    BY DEF FallbacksCounted
  <2>1. /\ g_fallback_chunks \in Nat /\ countBefore[c] \in Nat /\ fellBack[c] \in Nat
    BY DEF IInv, StageInv, TypeOK
  <2> QED  BY <2>1 DEF IInv, CountInv
<1> QED  BY InitIInv, NextIInv, <1>1, PTL DEF Spec

\* No rotation, retry or other COPY loses, repeats or moves a row.
THEOREM CopyRowsConserved == Spec => []RowsConserved
<1>1. IInv => RowsConserved
  BY DEF IInv, RowsInv, RowsOf, RowsConserved, Conserved, Numbers, Failed
<1> QED  BY InitIInv, NextIInv, <1>1, PTL DEF Spec

\* Every chunk is smaller than CHUNK_SIZE_BYTES and a row group together, and
\* when there are several none is empty.
THEOREM CopyChunksBounded == Spec => []ChunksBounded
<1>1. IInv => ChunksBounded
  BY DEF IInv, SizesInv, SizesOf, ChunksOf, ChunksBounded, Size
<1> QED  BY InitIInv, NextIInv, <1>1, PTL DEF Spec

-----------------------------------------------------------------------------
(* COPY implements AtomicCopy: Finish publishes the table, or the rename   *)
(* when there was an archive before.                                       *)

\* What a reader gets of a file.
Reads(f) ==
    CASE f \in {NoFile, Partial} -> Nothing
      [] f = Before -> Before
      [] OTHER -> FlattenSeq(f)

\* What a reader gets of each file that may be at the target.
LEMMA ReadsIs ==
    /\ \A f \in {NoFile, Partial} : Reads(f) = Nothing
    /\ Reads(Before) = Before
    /\ \A f \in Seq(Seq(Rows)) : Reads(f) = FlattenSeq(f)
<1>1. Before \notin {NoFile, Partial}
  BY CopyAssumption
<1>2. ASSUME NEW f \in Seq(Seq(Rows)) PROVE f \notin {NoFile, Partial, Before}
  BY FilesAreNew
<1>3. /\ \A f \in {NoFile, Partial} : Reads(f) = Nothing
      /\ Reads(Before) = Before
  BY <1>1 DEF Reads
<1>4. \A f \in Seq(Seq(Rows)) : Reads(f) = FlattenSeq(f)
  BY <1>2 DEF Reads
<1> QED  BY <1>3, <1>4

\* A reader gets what the target holds, before a step and after it.
LEMMA ReadableReads ==
    ASSUME NEW c
    PROVE  Readable(c) = Reads(target[c]) /\ Readable(c)' = Reads(target'[c])
BY DEF Readable, Reads

\* Once all rows have been appended the archive is the whole table.
LEMMA ArchiveIsTable ==
    ASSUME StageInv, NEW c \in Copies, RowsOf(c), pc[c] \in Done
    PROVE  FlattenSeq(archive[c]) = Numbers(rows[c])
<1>1. /\ canonical_bytes[c] = << >> /\ localState[c] = << >> /\ ~ ChunkOpen(c)
      /\ sunk[c] = rows[c] /\ Conserved(c) /\ FlattenSeq(archive[c]) \in Seq(Rows)
  BY DEF RowsOf, PlaceOf, Done, Compressing, Failed, ChunkOpen
<1>2. FlattenSeq(archive[c]) \o << >> = FlattenSeq(archive[c])
  BY <1>1, ConcatEmptySeq
<1> QED  BY <1>1, <1>2 DEF Conserved

\* The state in which a COPY fails or publishes its table.
LEMMA NotPublished ==
    ASSUME IInv, NEW c \in Copies,
           \/ pc[c] \notin {"finished", "ok"}
           \/ At(c, "finished") /\ tmpFile[c] # NoFile
    PROVE  Readable(c) \in {Nothing, Before}
<1>1. StageInv /\ OutOf(c)
  BY DEF IInv, OutInv
<1>2. target[c] \in {NoFile, Partial, Before}
  BY <1>1 DEF OutOf, At
<1> QED  BY <1>2, ReadableReads, ReadsIs

\* Finish puts the table where a reader finds it, or next to it.
LEMMA FinishRefines ==
    ASSUME IInv, NEW c \in Copies, Finish(c)
    PROVE  /\ Status(c) = "running" /\ Status(c)' = "running"
           /\ Readable(c) \in {Nothing, Before}
           /\ Readable(c)' = Readable(c) \/ Readable(c)' = Numbers(rows[c])
<1>1. /\ pc[c] = "finishing" /\ pc'[c] = "finished" /\ UNCHANGED << rows, archive >>
      /\ WriteOutput(c, archive[c])
  BY DEF Finish, IInv, StageInv, TypeOK, Goto, At, source
<1>2. Status(c) = "running" /\ Status(c)' = "running"
  BY <1>1 DEF Status, Ended, At
<1>3. Readable(c) \in {Nothing, Before}
  BY <1>1, NotPublished
<1>4. CASE target[c] = Before
  <2>1. target'[c] = Before
    BY <1>1, <1>4 DEF WriteOutput
  <2>2. Readable(c)' = Readable(c)
    BY <1>4, <2>1, ReadableReads
  <2> QED  BY <1>2, <1>3, <2>2
<1>5. CASE target[c] # Before
  <2>1. target'[c] = archive'[c]
    BY <1>1, <1>5 DEF WriteOutput, IInv, StageInv, TypeOK
  <2>2. Readable(c)' = FlattenSeq(archive[c])
    BY <1>1, <2>1, ReadableReads, ReadsIs, ArchiveIsNew DEF IInv
  <2>3. FlattenSeq(archive[c]) = Numbers(rows[c])
    BY <1>1, ArchiveIsTable DEF IInv, RowsInv, Done
  <2> QED  BY <1>2, <1>3, <2>2, <2>3
<1> QED  BY <1>4, <1>5

\* The rename publishes it when an archive was there before.
LEMMA MoveRefines ==
    ASSUME IInv, NEW c \in Copies, MoveTmpFile(c)
    PROVE  /\ Status(c) = "running" /\ Status(c)' = "running"
           /\ Readable(c) \in {Nothing, Before}
           /\ Readable(c)' = Numbers(rows[c])
<1>1. /\ pc[c] = "finished" /\ UNCHANGED << rows, archive, pc >>
      /\ tmpFile[c] # NoFile /\ target'[c] = tmpFile[c]
  BY DEF MoveTmpFile, IInv, StageInv, TypeOK, At, source
<1>2. Status(c) = "running" /\ Status(c)' = "running"
  BY <1>1 DEF Status, Ended, At
<1>3. Readable(c) \in {Nothing, Before}
  BY <1>1, NotPublished DEF At
<1>4. target'[c] = archive'[c]
  BY <1>1 DEF IInv, OutInv, OutOf, At
<1>5. Readable(c)' = FlattenSeq(archive[c])
  BY <1>1, <1>4, ReadableReads, ReadsIs, ArchiveIsNew DEF IInv
<1>6. FlattenSeq(archive[c]) = Numbers(rows[c])
  BY <1>1, ArchiveIsTable DEF IInv, RowsInv, Done
<1> QED  BY <1>2, <1>3, <1>5, <1>6

\* A COPY that returns has published its table.
LEMMA SucceedRefines ==
    ASSUME IInv, NEW c \in Copies, Succeed(c)
    PROVE  /\ Status(c) = "running" /\ Status(c)' = "ok"
           /\ Readable(c) = Numbers(rows[c]) /\ Readable(c)' = Readable(c)
<1>1. /\ pc[c] = "finished" /\ pc'[c] = "ok" /\ tmpFile[c] = NoFile /\ UNCHANGED target
  BY DEF Succeed, IInv, StageInv, TypeOK, Goto, At, output
<1>2. Status(c) = "running" /\ Status(c)' = "ok"
  BY <1>1 DEF Status, Ended, At
<1>3. StageInv /\ archive[c] # NoFile
  BY ArchiveIsNew DEF IInv
<1>4. target[c] = archive[c]
  BY <1>1, <1>3 DEF IInv, OutInv, OutOf, At
<1>5. FlattenSeq(archive[c]) = Numbers(rows[c])
  BY <1>1, <1>3, ArchiveIsTable DEF IInv, RowsInv, Done
<1>6. Readable(c) = FlattenSeq(archive[c]) /\ Readable(c)' = Readable(c)
  BY <1>1, <1>3, <1>4, ReadableReads, ReadsIs, ArchiveIsNew
<1> QED  BY <1>2, <1>5, <1>6

\* A COPY that throws has left the target as it was, for a reader.
LEMMA DestroyRefines ==
    ASSUME IInv, NEW c \in Copies, Destroy(c)
    PROVE  /\ Status(c) = "running" /\ Status(c)' = "error"
           /\ Readable(c) \in {Nothing, Before} /\ Readable(c)' = Readable(c)
<1>1. /\ pc[c] \in {"threw", "finishThrew"} /\ pc'[c] = "error"
      /\ UNCHANGED output \/ WriteOutput(c, NoFile)
  BY DEF Destroy, IInv, StageInv, TypeOK, Goto, At
<1>2. Status(c) = "running" /\ Status(c)' = "error"
  BY <1>1 DEF Status, Ended, At
<1>3. Readable(c) \in {Nothing, Before}
  BY <1>1, NotPublished
<1>4. target[c] \in {NoFile, Partial, Before} /\ DOMAIN target = Copies
  BY <1>1 DEF IInv, OutInv, OutOf, StageInv, TypeOK
<1>5. \/ target'[c] = target[c]
      \/ target[c] \in {NoFile, Partial} /\ target'[c] = NoFile
  BY <1>1, <1>4 DEF WriteOutput, output
<1>6. Readable(c)' = Readable(c)
  BY <1>5, ReadableReads, ReadsIs
<1> QED  BY <1>2, <1>3, <1>6

\* No other step shows in what the target holds or in how the COPY ended.
LEMMA OthersStutter ==
    ASSUME IInv, NEW c \in Copies, Step(c),
           ~ Finish(c), ~ MoveTmpFile(c), ~ Succeed(c), ~ Destroy(c)
    PROVE  Status(c)' = Status(c) /\ Readable(c)' = Readable(c)
<1>1. /\ pc[c] \notin {"finished", "ok", "error"} /\ pc'[c] \notin {"finished", "ok", "error"}
      /\ UNCHANGED output \/ WriteOutput(c, Partial)
  BY DEF IInv, StageInv, TypeOK, Step, OpenzlCopyInitGlobal, OpenzlCopySink, RotateChunk,
         OpenzlCopyFinalize, CloseParquet, TakeStaged, RefuseStaged, Compress, FallBack,
         CompressGeneric, CompressFails, AppendThenStartChunk, AppendLast, AppendFails,
         AppendChunk, FinishFails, Throw, Goto, At
<1>2. Status(c)' = Status(c)
  BY <1>1 DEF Status, Ended, At
<1>3. target[c] \in {NoFile, Partial, Before} /\ DOMAIN target = Copies
  BY <1>1 DEF IInv, OutInv, OutOf, StageInv, TypeOK
<1>4. \/ target'[c] = target[c]
      \/ target[c] \in {NoFile, Partial} /\ target'[c] = Partial
  BY <1>1, <1>3 DEF WriteOutput, output
<1>5. Readable(c)' = Readable(c)
  BY <1>4, ReadableReads, ReadsIs
<1> QED  BY <1>2, <1>5

\* A reader of the target, and the caller, see a COPY of AtomicCopy.
LEMMA StepRefines ==
    ASSUME IInv, NEW c \in Copies, Step(c)
    PROVE  AC!Next \/ UNCHANGED AC!vars
<1>1. UNCHANGED rows
  BY DEF Step, OpenzlCopyInitGlobal, OpenzlCopySink, RotateChunk, OpenzlCopyFinalize,
         CloseParquet, TakeStaged, RefuseStaged, Compress, FallBack, CompressGeneric,
         CompressFails, AppendThenStartChunk, AppendLast, AppendFails, AppendChunk,
         Finish, FinishFails, MoveTmpFile, Succeed, Throw, Destroy, source
<1>2. ASSUME NEW d \in Copies \ {c}
      PROVE  Readable(d)' = Readable(d) /\ Status(d)' = Status(d)
  <2>1. UNCHANGED << target[d], pc[d] >>
    BY OthersKept DEF IInv, Kept
  <2> QED  BY <2>1 DEF Readable, Status, Ended, At
<1>3. AC!Table(c) = Numbers(rows[c])
  BY DEF AC!Table, Numbers
<1>4. CASE Readable(c)' = Readable(c) /\ Status(c)' = Status(c)
  <2>1. UNCHANGED << rows, [d \in Copies |-> Readable(d)], [d \in Copies |-> Status(d)] >>
    BY <1>1, <1>2, <1>4
  <2> QED  BY <2>1 DEF AC!vars
<1>5. CASE /\ Status(c) = "running" /\ Status(c)' = "running"
           /\ Readable(c) \in {Nothing, Before} /\ Readable(c)' = Numbers(rows[c])
  BY <1>1, <1>2, <1>3, <1>5 DEF AC!Next, AC!Publish
<1>6. CASE Succeed(c)
  BY <1>1, <1>2, <1>3, <1>6, SucceedRefines DEF AC!Next, AC!Succeed
<1>7. CASE Destroy(c)
  BY <1>1, <1>2, <1>7, DestroyRefines DEF AC!Next, AC!Fail
<1>8. CASE Finish(c)
  BY <1>4, <1>5, <1>8, FinishRefines
<1>9. CASE MoveTmpFile(c)
  BY <1>5, <1>9, MoveRefines
<1> QED  BY <1>4, <1>6, <1>7, <1>8, <1>9, OthersStutter

\* A reader of a target never gets part of a table or its rows out of order,
\* and a COPY that returns has published the whole table, for any number of
\* COPYs, rows and chunks.
THEOREM CopyImplementsAtomicCopy == Spec => ImplementsAtomicCopy
<1>1. Init => AC!Init
  <2> SUFFICES ASSUME Init PROVE AC!Init
    OBVIOUS
  <2>1. ASSUME NEW c \in Copies
        PROVE  Readable(c) \in {Nothing, Before} /\ Status(c) = "running"
    <3>1. target[c] \in {NoFile, Before} /\ pc[c] = "bound"
      BY DEF Init
    <3> QED  BY <3>1, ReadableReads, ReadsIs DEF Status, Ended, At
  <2>2. rows \in [Copies -> RowCounts]
    BY DEF Init
  <2> QED  BY <2>1, <2>2 DEF AC!Init
<1>2. IInv /\ [Next]_vars => [AC!Next]_AC!vars
  <2> SUFFICES ASSUME IInv, [Next]_vars PROVE AC!Next \/ UNCHANGED AC!vars
    OBVIOUS
  <2>1. ASSUME NEW c \in Copies, Step(c) PROVE AC!Next \/ UNCHANGED AC!vars
    BY <2>1, StepRefines
  <2>2. CASE UNCHANGED vars
    <3>1. UNCHANGED << rows, target, pc >>
      BY <2>2 DEF vars, source, output
    <3>2. \A c \in Copies : Readable(c)' = Readable(c) /\ Status(c)' = Status(c)
      BY <3>1 DEF Readable, Status, Ended, At
    <3> QED  BY <3>1, <3>2 DEF AC!vars
  <2> QED  BY <2>1, <2>2 DEF Next, AllEnded
<1> QED  BY InitIInv, NextIInv, <1>1, <1>2, PTL DEF Spec, ImplementsAtomicCopy, AC!Spec

=============================================================================
