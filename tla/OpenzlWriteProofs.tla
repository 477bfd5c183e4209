------------------------- MODULE OpenzlWriteProofs -------------------------
(***************************************************************************)
(* Proofs about OpenzlWrite for any handles, paths, settings and bounds:   *)
(* what Close may hand to OpenZL and what it may store.                    *)
(***************************************************************************)
EXTENDS OpenzlWrite, GraphOptionsProofs

-----------------------------------------------------------------------------
(* The invariant: what a handle knows of the frame it is about to store.   *)

ShapeInv ==
    /\ DOMAIN pc = Handles /\ DOMAIN write_settings = Handles
    /\ DOMAIN write_buffer = Handles /\ DOMAIN attempt = Handles
    /\ DOMAIN frame = Handles

\* An open handle has the options its settings gave, valid or not.
SettingsInv ==
    \A h \in Handles : pc[h] # "none" => write_settings[h] \in GraphOptionsType

\* Only a small buffer is compressed a second time.
RetryInv ==
    \A h \in Handles :
        pc[h] = "compress" /\ attempt[h] # "first" =>
            Len(write_buffer[h]) <= kSmallFallbackBytes

\* A frame exists from its compression until the file is written.
FrameInv ==
    \A h \in Handles : frame[h] # NULL => pc[h] \in {"tmp", "writing"}

IInv == /\ ShapeInv /\ SettingsInv /\ RetryInv /\ FrameInv
        /\ FramesAreWritable /\ OnlySmallFilesFallBack

\* What CompressParquetBytes returns is the frame of the input under the
\* options of the attempt, which have been validated.
LEMMA CompressedFrame ==
    ASSUME NEW h \in Handles, NEW f \in Outcomes(h) \ {Error}
    PROVE  f = Frame(write_buffer[h], Graph(h)) /\ ValidateGraphOptions(Graph(h))
<1>1. ValidateGraphOptions(Graph(h)) /\ f \in compressSerial(write_buffer[h], Graph(h), << >>)
  BY DEF Outcomes, CompressBytesImpl
<1>2. f = Frame(write_buffer[h], Graph(h))
  BY <1>1 DEF compressSerial, IsTrained
<1>3. QED
  BY <1>1, <1>2

\* The options of both attempts have the right types.
LEMMA GraphIsTyped ==
    ASSUME NEW h \in Handles, write_settings[h] \in GraphOptionsType
    PROVE  Graph(h) \in GraphOptionsType
<1> DEFINE g == write_settings[h]
           serial == [g EXCEPT !.profile = "serial"]
<1>1. serial \in GraphOptionsType
  <2>1. "serial" \in ProfileNames
    BY GraphAssumption
  <2>2. g \in GraphOptionsType
    OBVIOUS
  <2> HIDE DEF g
  <2>3. QED
    BY <2>1, <2>2 DEF GraphOptionsType
<1>2. [serial EXCEPT !.parquet_chunk_bytes = 0] \in GraphOptionsType
  <2>1. 0 \in 0 .. SizeMax
    BY GraphAssumption
  <2> HIDE DEF serial
  <2>2. QED
    BY <1>1, <2>1 DEF GraphOptionsType
<1>3. Graph(h) = g \/ Graph(h) = [serial EXCEPT !.parquet_chunk_bytes = 0]
  BY DEF Graph
<1>4. QED
  BY <1>2, <1>3

\* No handle is open at first.
LEMMA InitIInv == Init => IInv
BY DEF Init, IInv, ShapeInv, SettingsInv, RetryInv, FrameInv,
       FramesAreWritable, OnlySmallFilesFallBack

\* A step of Compress puts a frame of validated options in place.
LEMMA CompressIInv ==
    ASSUME IInv, NEW h \in Handles, Compress(h)
    PROVE  IInv'
<1>1. PICK f \in Outcomes(h) \ {Error} : frame' = [frame EXCEPT ![h] = f]
  BY DEF Compress
<1>2. f = Frame(write_buffer[h], Graph(h)) /\ ValidateGraphOptions(Graph(h))
  BY <1>1, CompressedFrame
<1>3. write_settings[h] \in GraphOptionsType
  BY DEF IInv, SettingsInv, Compress
<1>4. Writable(f)
  BY <1>2, <1>3, GraphIsTyped, ValidFrames
<1>5. ShapeInv' /\ SettingsInv' /\ RetryInv' /\ FrameInv'
  BY DEF IInv, ShapeInv, SettingsInv, RetryInv, FrameInv, Compress, handleVars
<1>6. FramesAreWritable'
  BY <1>1, <1>4 DEF IInv, ShapeInv, FramesAreWritable, Writable
<1>7. f.profile = "serial" /\ Len(f.data) > kSmallFallbackBytes =>
          write_settings[h].profile = "serial"
  <2>1. f.profile = Graph(h).profile /\ f.data = write_buffer[h]
    BY <1>2 DEF Frame
  <2>2. CASE attempt[h] = "first"
    BY <2>1, <2>2 DEF Graph
  <2>3. CASE attempt[h] # "first"
    <3>1. Len(f.data) <= kSmallFallbackBytes
      BY <2>1, <2>3 DEF IInv, RetryInv, Compress
    <3>2. QED
      BY <3>1, WriteAssumption
  <2>4. QED
    BY <2>2, <2>3
<1>8. OnlySmallFilesFallBack'
  BY <1>1, <1>7 DEF IInv, ShapeInv, OnlySmallFilesFallBack, Compress, handleVars
<1>9. QED
  BY <1>5, <1>6, <1>8 DEF IInv

\* After a failed attempt the handle holds no frame, and tries again only with
\* a small buffer.
LEMMA AttemptFailsIInv ==
    ASSUME IInv, NEW h \in Handles, AttemptFails(h),
           pc[h] \in {"compress", "tmp", "writing"}
    PROVE  IInv'
<1>1. ShapeInv'
  BY DEF IInv, ShapeInv, AttemptFails, handleVars
<1>2. SettingsInv'
  BY DEF IInv, ShapeInv, SettingsInv, AttemptFails, handleVars
<1>3. RetryInv'
  BY DEF IInv, ShapeInv, RetryInv, AttemptFails, MayFallBack, handleVars
<1>4. FrameInv'
  BY DEF IInv, ShapeInv, FrameInv, AttemptFails
<1>5. FramesAreWritable' /\ OnlySmallFilesFallBack'
  BY DEF IInv, ShapeInv, FramesAreWritable, OnlySmallFilesFallBack,
         AttemptFails, handleVars
<1>6. QED
  BY <1>1, <1>2, <1>3, <1>4, <1>5 DEF IInv

\* Every other step leaves the frames alone or forgets one.
LEMMA NextIInv == IInv /\ [Next]_vars => IInv'
<1> SUFFICES ASSUME IInv, [Next]_vars
             PROVE  IInv'
  OBVIOUS
<1> USE DEF IInv, ShapeInv, SettingsInv, RetryInv, FrameInv,
            FramesAreWritable, OnlySmallFilesFallBack
<1>1. ASSUME NEW h \in Handles, NEW p \in Targets, NEW s \in Settings,
             OpenFile(h, p, s)
      PROVE  IInv'
  <2>1. OpenzlDefaultGraphOptions(s) \in GraphOptionsType
    BY SettingsAreRead, SettingsAssumption
  <2>2. frame[h] = NULL
    BY <1>1 DEF OpenFile
  <2>3. QED
    BY <1>1, <2>1, <2>2 DEF OpenFile, closeVars, fileVars
<1>2. ASSUME NEW h \in Handles, NEW n \in 0 .. MaxSize - 1, Write(h, n, Block)
      PROVE  IInv'
  BY <1>2 DEF Write, CanWrite, closeVars, fileVars
<1>3. ASSUME NEW h \in Handles, NEW n \in 0 .. MaxSize, Truncate(h, n)
      PROVE  IInv'
  BY <1>3 DEF Truncate, CanWrite, closeVars, fileVars
<1>4. ASSUME NEW h \in Handles, Close(h)
      PROVE  IInv'
  BY <1>4 DEF Close, handleVars, fileVars
<1>5. ASSUME NEW h \in Handles, CloseStep(h)
      PROVE  IInv'
  <2>1. CASE Compress(h)
    BY <2>1, CompressIInv
  <2>2. CASE CompressFails(h) \/ OpenTmpFails(h) \/ WriteFails(h)
    BY <2>2, AttemptFailsIInv DEF CompressFails, OpenTmpFails, WriteFails
  <2>3. CASE OpenTmp(h)
    BY <2>3 DEF OpenTmp, handleVars
  <2>4. CASE WritePart(h)
    BY <2>4 DEF WritePart, handleVars
  <2>5. CASE TmpWritten(h)
    BY <2>5 DEF TmpWritten, fileVars
  <2>6. CASE Rename(h)
    BY <2>6 DEF Rename, Return, MoveName, handleVars
  <2>7. CASE RenameFails(h)
    BY <2>7 DEF RenameFails, handleVars, closeVars
  <2>8. CASE RemoveTmp(h)
    BY <2>8 DEF RemoveTmp, Return, Unlink, handleVars
  <2>9. QED
    BY <1>5, <2>1, <2>2, <2>3, <2>4, <2>5, <2>6, <2>7, <2>8 DEF CloseStep
<1>6. ASSUME NEW h \in Handles, Destroy(h)
      PROVE  IInv'
  BY <1>6 DEF Destroy, fileVars
<1>7. ASSUME NEW p \in Paths, TryRemoveFile(p)
      PROVE  IInv'
  BY <1>7 DEF TryRemoveFile, Unlink, handleVars
<1>8. ASSUME NEW p \in Paths, NEW q \in Paths, MoveFile(p, q)
      PROVE  IInv'
  BY <1>8 DEF MoveFile, MoveName, handleVars
<1>9. CASE Crash
  BY <1>9 DEF Crash
<1>10. CASE UNCHANGED vars
  BY <1>10 DEF vars, fileVars, handleVars, closeVars
<1>11. QED
  BY <1>1, <1>2, <1>3, <1>4, <1>5, <1>6, <1>7, <1>8, <1>9, <1>10 DEF Next

\* No settings, valid or not, and no failure of any file operation or crash
\* make OpenZL write a frame in a version the build cannot write or with a
\* chunk size the version cannot express.
THEOREM WriteFramesAreWritable == Spec => []FramesAreWritable
<1>1. IInv => FramesAreWritable
  BY DEF IInv
<1>2. QED
  BY InitIInv, NextIInv, <1>1, PTL DEF Spec

\* Close never stores a file over kSmallFallbackBytes with the generic graph
\* that the user did not choose.
THEOREM WriteOnlySmallFilesFallBack == Spec => []OnlySmallFilesFallBack
<1>1. IInv => OnlySmallFilesFallBack
  BY DEF IInv
<1>2. QED
  BY InitIInv, NextIInv, <1>1, PTL DEF Spec

-----------------------------------------------------------------------------
(* A reader never sees a half-written archive, if no two handles write one *)
(* path at a time and a stream's destructor writes what it holds.          *)

HasParts(f) == f = << f[1], f[2] >>

FileShape ==
    /\ DOMAIN pc = Handles /\ DOMAIN real_path = Handles
    /\ DOMAIN frame = Handles /\ DOMAIN out = Handles
    /\ DOMAIN parts = Handles
    /\ DOMAIN file = Names
    /\ \A n \in Names : file[n] # NoFile => HasParts(file[n])

\* A busy handle writes one of the targets, and no other busy handle does.
TargetsInv ==
    /\ \A h \in Handles : Busy(h) => real_path[h] \in Paths
    /\ \A g, h \in Handles :
          Busy(g) /\ Busy(h) /\ real_path[g] = real_path[h] => g = h

\* The temporary file holds what its only writer has written so far.
WritingInv ==
    \A h \in Handles :
        /\ pc[h] # "writing" => out[h] = NoFile
        /\ pc[h] = "writing" =>
              LET n == tmp_path(real_path[h])
              IN  /\ out[h] = n
                  /\ HasParts(file[n])
                  /\ parts[h] \in 0 .. 2
                  /\ parts[h] >= 1 => file[n][1] = Part(frame[h])
                  /\ parts[h] = 2 => file[n][2] = Part(frame[h])

\* What is renamed into place is complete.
RenameInv ==
    \A h \in Handles :
        /\ pc[h] # "writing" => parts[h] = 0
        /\ pc[h] = "rename" =>
              LET n == tmp_path(real_path[h])
              IN  file[n] # NoFile => Whole(file[n])

WInv == FileShape /\ TargetsInv /\ WritingInv /\ RenameInv
        /\ ExistingArchivesAreWhole

\* Names of archives and of temporary files are all different.
LEMMA NamesDiffer ==
    \A p, q \in Paths :
        /\ Archive(p) \in Names /\ tmp_path(p) \in Names
        /\ Archive(p) # tmp_path(q)
        /\ Archive(p) = Archive(q) => p = q
        /\ tmp_path(p) = tmp_path(q) => p = q
        /\ tmp_path(p) # NoFile /\ Archive(p) # NoFile
<1> SUFFICES ASSUME NEW p \in Paths, NEW q \in Paths
             PROVE  /\ Archive(p) \in Names /\ tmp_path(p) \in Names
                    /\ Archive(p) # tmp_path(q)
                    /\ Archive(p) = Archive(q) => p = q
                    /\ tmp_path(p) = tmp_path(q) => p = q
                    /\ tmp_path(p) # NoFile /\ Archive(p) # NoFile
  OBVIOUS
<1>1. Archive(p) \in Names /\ tmp_path(p) \in Names
  BY DEF Names
<1>2. "" # ".openzl_tmp"
  OBVIOUS
<1>3. /\ Archive(p) # tmp_path(q)
      /\ Archive(p) = Archive(q) => p = q
      /\ tmp_path(p) = tmp_path(q) => p = q
  BY <1>2 DEF Archive, tmp_path
<1>4. QED
  BY <1>1, <1>3, NamesAssumption

\* Two parts of one frame make a whole file.
LEMMA PartsMakeWhole ==
    ASSUME NEW f, NEW x, f[1] = Part(x), f[2] = Part(x)
    PROVE  Whole(f)
BY DEF Whole, Part, Blank

\* No handle is busy at first, and every archive is whole.
LEMMA InitWInv == Init => WInv
<1> SUFFICES ASSUME Init
             PROVE  WInv
  OBVIOUS
<1>1. \A n \in Names : file[n] # NoFile => file[n] = OldArchive
  BY DEF Init
<1>2. Whole(OldArchive) /\ OldArchive = << OldArchive[1], OldArchive[2] >>
  BY DEF OldArchive, Whole, Part, Blank
<1>3. FileShape
  BY <1>1, <1>2 DEF Init, FileShape, HasParts
<1>4. TargetsInv /\ WritingInv /\ RenameInv
  BY DEF Init, TargetsInv, WritingInv, RenameInv, Busy
<1>5. ExistingArchivesAreWhole
  BY <1>1, <1>2, NamesDiffer DEF ExistingArchivesAreWhole, FileExists
<1>6. QED
  BY <1>3, <1>4, <1>5 DEF WInv

\* A step of one handle that touches neither a file nor a stream, and after
\* which the handle is not writing.
LEMMA QuietStep ==
    ASSUME WInv, NEW h \in Handles,
           UNCHANGED << file, out, parts, real_path >>,
           DOMAIN frame' = Handles,
           \A g \in Handles \ {h} : frame'[g] = frame[g],
           NEW v \in {"compress", "tmp", "remove", "none"},
           pc' = [pc EXCEPT ![h] = v],
           pc[h] # "writing", Busy(h)
    PROVE  WInv'
<1>1. FileShape'
  BY DEF WInv, FileShape, HasParts
<1>2. TargetsInv'
  BY DEF WInv, FileShape, TargetsInv, Busy
<1>3. WritingInv'
  <2> SUFFICES ASSUME NEW g \in Handles
               PROVE  /\ pc'[g] # "writing" => out'[g] = NoFile
                      /\ pc'[g] = "writing" =>
                            /\ out'[g] = tmp_path(real_path'[g])
                            /\ HasParts(file'[tmp_path(real_path'[g])])
                            /\ parts'[g] \in 0 .. 2
                            /\ parts'[g] >= 1 =>
                                  file'[tmp_path(real_path'[g])][1] = Part(frame'[g])
                            /\ parts'[g] = 2 =>
                                  file'[tmp_path(real_path'[g])][2] = Part(frame'[g])
    BY DEF WritingInv, Part, HasParts
  <2>1. CASE g = h
    BY <2>1 DEF WInv, FileShape, WritingInv
  <2>2. CASE g # h
    BY <2>2 DEF WInv, FileShape, WritingInv
  <2>3. QED
    BY <2>1, <2>2
<1>4. RenameInv'
  BY DEF WInv, FileShape, RenameInv, Whole
<1>5. ExistingArchivesAreWhole'
  BY DEF WInv, ExistingArchivesAreWhole, FileExists, Whole
<1>6. QED
  BY <1>1, <1>2, <1>3, <1>4, <1>5 DEF WInv

\* A new handle is not busy and changes no file.
LEMMA OpenFileWInv ==
    ASSUME WInv, ~SharedPaths, NEW h \in Handles, NEW p \in Targets,
           NEW s \in Settings, OpenFile(h, p, s)
    PROVE  WInv'
<1> USE DEF OpenFile, fileVars, closeVars
<1>1. FileShape'
  BY DEF WInv, FileShape, HasParts
<1>2. TargetsInv'
  BY WriteAssumption DEF WInv, FileShape, TargetsInv, Busy
<1>3. WritingInv'
  BY DEF WInv, FileShape, WritingInv, Part, HasParts
<1>4. RenameInv'
  BY DEF WInv, FileShape, RenameInv, Whole
<1>5. ExistingArchivesAreWhole'
  BY DEF WInv, ExistingArchivesAreWhole, FileExists, Whole
<1>6. QED
  BY <1>1, <1>2, <1>3, <1>4, <1>5 DEF WInv

\* A handle that is destroyed is not busy.
LEMMA DestroyWInv ==
    ASSUME WInv, NEW h \in Handles, Destroy(h)
    PROVE  WInv'
<1> USE DEF Destroy, fileVars
<1>1. FileShape'
  BY DEF WInv, FileShape, HasParts
<1>2. TargetsInv'
  BY DEF WInv, FileShape, TargetsInv, Busy
<1>3. WritingInv'
  BY DEF WInv, FileShape, WritingInv, Part, HasParts
<1>4. RenameInv'
  BY DEF WInv, FileShape, RenameInv, Whole
<1>5. ExistingArchivesAreWhole'
  BY DEF WInv, ExistingArchivesAreWhole, FileExists, Whole
<1>6. QED
  BY <1>1, <1>2, <1>3, <1>4, <1>5 DEF WInv

\* A failed attempt leaves the files as they are: the temporary file may be
\* there in part, and nothing is renamed.
LEMMA AttemptFailsWInv ==
    ASSUME WInv, NEW h \in Handles, AttemptFails(h),
           pc[h] \in {"compress", "tmp", "writing"}
    PROVE  WInv'
<1>0. PICK v \in {"compress", "remove"} : pc' = [pc EXCEPT ![h] = v]
  BY DEF AttemptFails
<1>1. /\ UNCHANGED << file, real_path >>
      /\ out' = [out EXCEPT ![h] = NoFile]
      /\ parts' = [parts EXCEPT ![h] = 0]
      /\ frame' = [frame EXCEPT ![h] = NULL]
  BY DEF AttemptFails, fileVars, handleVars
<1>2. FileShape'
  BY <1>0, <1>1 DEF WInv, FileShape, HasParts
<1>3. TargetsInv'
  BY <1>0, <1>1 DEF WInv, FileShape, TargetsInv, Busy
<1>4. WritingInv'
  BY <1>0, <1>1 DEF WInv, FileShape, WritingInv, Part, HasParts
<1>5. RenameInv'
  BY <1>0, <1>1 DEF WInv, FileShape, RenameInv, Whole
<1>6. ExistingArchivesAreWhole'
  BY <1>1 DEF WInv, ExistingArchivesAreWhole, FileExists, Whole
<1>7. QED
  BY <1>2, <1>3, <1>4, <1>5, <1>6 DEF WInv

\* The temporary file of one busy handle is not that of another.
LEMMA TmpIsOwn ==
    ASSUME TargetsInv, NEW g \in Handles, NEW h \in Handles,
           Busy(g), Busy(h), g # h
    PROVE  tmp_path(real_path[g]) # tmp_path(real_path[h])
BY NamesDiffer DEF TargetsInv

\* The temporary file is emptied by the only busy handle of its path.
LEMMA OpenTmpWInv ==
    ASSUME WInv, NEW h \in Handles, OpenTmp(h)
    PROVE  WInv'
<1> DEFINE n == tmp_path(real_path[h])
<1>1. /\ Busy(h) /\ real_path[h] \in Paths /\ n \in Names /\ parts[h] = 0
  BY NamesDiffer DEF WInv, TargetsInv, RenameInv, OpenTmp, Busy
<1>2. /\ file' = [file EXCEPT ![n] = Empty]
      /\ out' = [out EXCEPT ![h] = n]
      /\ pc' = [pc EXCEPT ![h] = "writing"]
      /\ UNCHANGED << real_path, frame, parts >>
      /\ pc[h] = "tmp"
  BY DEF OpenTmp, handleVars
<1>3. HasParts(Empty)
  BY DEF HasParts, Empty
<1>4. FileShape'
  BY <1>1, <1>2, <1>3 DEF WInv, FileShape, HasParts
<1>5. TargetsInv'
  BY <1>2 DEF WInv, FileShape, TargetsInv, Busy
<1>6. \A g \in Handles : g # h /\ Busy(g) => file'[tmp_path(real_path[g])] = file[tmp_path(real_path[g])]
  BY <1>1, <1>2, TmpIsOwn, NamesDiffer DEF WInv, FileShape, TargetsInv
<1>7. WritingInv'
  <2> SUFFICES ASSUME NEW g \in Handles
               PROVE  /\ pc'[g] # "writing" => out'[g] = NoFile
                      /\ pc'[g] = "writing" =>
                            /\ out'[g] = tmp_path(real_path'[g])
                            /\ HasParts(file'[tmp_path(real_path'[g])])
                            /\ parts'[g] \in 0 .. 2
                            /\ parts'[g] >= 1 =>
                                  file'[tmp_path(real_path'[g])][1] = Part(frame'[g])
                            /\ parts'[g] = 2 =>
                                  file'[tmp_path(real_path'[g])][2] = Part(frame'[g])
    BY DEF WritingInv, Part, HasParts
  <2>1. CASE g = h
    BY <1>1, <1>2, <1>3, <2>1 DEF WInv, FileShape
  <2>2. CASE g # h
    BY <1>2, <1>6, <2>2 DEF WInv, FileShape, WritingInv, Busy
  <2>3. QED
    BY <2>1, <2>2
<1>8. RenameInv'
  BY <1>1, <1>2, <1>6 DEF WInv, FileShape, RenameInv, Whole, Busy
<1>9. ExistingArchivesAreWhole'
  BY <1>1, <1>2, NamesDiffer
     DEF WInv, FileShape, ExistingArchivesAreWhole, FileExists, Whole
<1>10. QED
  BY <1>4, <1>5, <1>7, <1>8, <1>9 DEF WInv

\* A part is written to the handle's own temporary file.
LEMMA WritePartWInv ==
    ASSUME WInv, NEW h \in Handles, WritePart(h)
    PROVE  WInv'
<1> DEFINE n == tmp_path(real_path[h])
<1>1. /\ Busy(h) /\ real_path[h] \in Paths /\ n \in Names
      /\ out[h] = n /\ n # Unlinked /\ HasParts(file[n])
      /\ parts[h] \in 0 .. 1
  BY NamesDiffer, NamesAssumption
     DEF WInv, TargetsInv, WritingInv, WritePart, Busy
<1>2. /\ file' = [file EXCEPT ![n][parts[h] + 1] = Part(frame[h])]
      /\ parts' = [parts EXCEPT ![h] = @ + 1]
      /\ UNCHANGED << pc, real_path, frame, out >>
      /\ pc[h] = "writing"
  BY <1>1 DEF WritePart, handleVars
<1>3. /\ HasParts(file'[n])
      /\ file'[n][parts[h] + 1] = Part(frame[h])
      /\ parts[h] = 1 => file'[n][1] = file[n][1]
  BY <1>1, <1>2 DEF WInv, FileShape, HasParts
<1>4. FileShape'
  BY <1>1, <1>2, <1>3 DEF WInv, FileShape, HasParts
<1>5. TargetsInv'
  BY <1>2 DEF WInv, FileShape, TargetsInv, Busy
<1>6. \A g \in Handles : g # h /\ Busy(g) =>
          file'[tmp_path(real_path[g])] = file[tmp_path(real_path[g])]
  BY <1>1, <1>2, TmpIsOwn, NamesDiffer DEF WInv, FileShape, TargetsInv
<1>7. WritingInv'
  <2> SUFFICES ASSUME NEW g \in Handles
               PROVE  /\ pc'[g] # "writing" => out'[g] = NoFile
                      /\ pc'[g] = "writing" =>
                            /\ out'[g] = tmp_path(real_path'[g])
                            /\ HasParts(file'[tmp_path(real_path'[g])])
                            /\ parts'[g] \in 0 .. 2
                            /\ parts'[g] >= 1 =>
                                  file'[tmp_path(real_path'[g])][1] = Part(frame'[g])
                            /\ parts'[g] = 2 =>
                                  file'[tmp_path(real_path'[g])][2] = Part(frame'[g])
    BY DEF WritingInv, Part, HasParts
  <2>1. CASE g = h
    BY <1>1, <1>2, <1>3, <2>1 DEF WInv, FileShape, WritingInv
  <2>2. CASE g # h
    BY <1>2, <1>6, <2>2 DEF WInv, FileShape, WritingInv, Busy
  <2>3. QED
    BY <2>1, <2>2
<1>8. RenameInv'
  BY <1>1, <1>2, <1>6 DEF WInv, FileShape, RenameInv, Whole, Busy
<1>9. ExistingArchivesAreWhole'
  BY <1>1, <1>2, NamesDiffer
     DEF WInv, FileShape, ExistingArchivesAreWhole, FileExists, Whole
<1>10. QED
  BY <1>4, <1>5, <1>7, <1>8, <1>9 DEF WInv

\* The whole temporary file is there when WriteFile returns.
LEMMA TmpWrittenWInv ==
    ASSUME WInv, ~TailCanBeLost, NEW h \in Handles, TmpWritten(h)
    PROVE  WInv'
<1> DEFINE n == tmp_path(real_path[h])
<1>1. /\ UNCHANGED << file, real_path >>
      /\ out' = [out EXCEPT ![h] = NoFile]
      /\ parts' = [parts EXCEPT ![h] = 0]
      /\ frame' = [frame EXCEPT ![h] = NULL]
      /\ pc' = [pc EXCEPT ![h] = "rename"]
      /\ pc[h] = "writing" /\ parts[h] = 2
  BY DEF TmpWritten, fileVars
<1>2. Whole(file[n])
  <2>1. file[n][1] = Part(frame[h]) /\ file[n][2] = Part(frame[h])
    BY <1>1 DEF WInv, WritingInv
  <2>2. QED
    BY <2>1, PartsMakeWhole
<1>3. FileShape'
  BY <1>1 DEF WInv, FileShape, HasParts
<1>4. TargetsInv'
  BY <1>1 DEF WInv, FileShape, TargetsInv, Busy
<1>5. WritingInv'
  BY <1>1 DEF WInv, FileShape, WritingInv, Part, HasParts
<1>6. RenameInv'
  BY <1>1, <1>2 DEF WInv, FileShape, RenameInv, Whole
<1>7. ExistingArchivesAreWhole'
  BY <1>1 DEF WInv, ExistingArchivesAreWhole, FileExists, Whole
<1>8. QED
  BY <1>3, <1>4, <1>5, <1>6, <1>7 DEF WInv

\* Names change hands without touching the temporary file of another Close.
LEMMA RenameWInv ==
    ASSUME WInv, NEW h \in Handles, Rename(h)
    PROVE  WInv'
<1> DEFINE n == tmp_path(real_path[h])
           a == Archive(real_path[h])
<1>1. /\ Busy(h) /\ real_path[h] \in Paths /\ n \in Names /\ a \in Names
      /\ Whole(file[n]) /\ HasParts(file[n]) /\ file[n] # NoFile
  BY NamesDiffer
     DEF WInv, FileShape, TargetsInv, RenameInv, Rename, MoveName, Busy
<1>2. /\ file' = [file EXCEPT ![a] = file[n], ![n] = NoFile]
      /\ pc' = [pc EXCEPT ![h] = "closed"]
      /\ UNCHANGED << real_path, frame, parts >>
      /\ pc[h] = "rename"
  BY DEF Rename, MoveName, Return, handleVars
<1>3. DOMAIN out' = Handles /\ \A g \in Handles : out'[g] = out[g]
  <2>1. \A g \in Handles : out[g] # n /\ out[g] # a
    BY <1>1, <1>2, TmpIsOwn, NamesDiffer
       DEF WInv, TargetsInv, WritingInv, Busy
  <2>2. QED
    BY <2>1 DEF Rename, MoveName
<1>4. FileShape'
  BY <1>1, <1>2, <1>3 DEF WInv, FileShape, HasParts
<1>5. TargetsInv'
  BY <1>2 DEF WInv, FileShape, TargetsInv, Busy
<1>6. \A g \in Handles : g # h /\ Busy(g) =>
          file'[tmp_path(real_path[g])] = file[tmp_path(real_path[g])]
  BY <1>1, <1>2, TmpIsOwn, NamesDiffer DEF WInv, FileShape, TargetsInv
<1>7. WritingInv'
  <2> SUFFICES ASSUME NEW g \in Handles
               PROVE  /\ pc'[g] # "writing" => out'[g] = NoFile
                      /\ pc'[g] = "writing" =>
                            /\ out'[g] = tmp_path(real_path'[g])
                            /\ HasParts(file'[tmp_path(real_path'[g])])
                            /\ parts'[g] \in 0 .. 2
                            /\ parts'[g] >= 1 =>
                                  file'[tmp_path(real_path'[g])][1] = Part(frame'[g])
                            /\ parts'[g] = 2 =>
                                  file'[tmp_path(real_path'[g])][2] = Part(frame'[g])
    BY DEF WritingInv, Part, HasParts
  <2>1. CASE g = h
    BY <1>2, <1>3, <2>1 DEF WInv, FileShape, WritingInv
  <2>2. CASE g # h
    BY <1>2, <1>3, <1>6, <2>2 DEF WInv, FileShape, WritingInv, Busy
  <2>3. QED
    BY <2>1, <2>2
<1>8. RenameInv'
  BY <1>1, <1>2, <1>6 DEF WInv, FileShape, RenameInv, Whole, Busy
<1>9. ExistingArchivesAreWhole'
  BY <1>1, <1>2, NamesDiffer
     DEF WInv, FileShape, ExistingArchivesAreWhole, FileExists, Whole
<1>10. QED
  BY <1>4, <1>5, <1>7, <1>8, <1>9 DEF WInv

\* The temporary file that is removed is the handle's own.
LEMMA RemoveTmpWInv ==
    ASSUME WInv, NEW h \in Handles, RemoveTmp(h)
    PROVE  WInv'
<1> DEFINE n == tmp_path(real_path[h])
<1>1. Busy(h) /\ real_path[h] \in Paths /\ n \in Names
  BY NamesDiffer DEF WInv, TargetsInv, RemoveTmp, Busy
<1>2. /\ file' = [file EXCEPT ![n] = NoFile]
      /\ pc' = [pc EXCEPT ![h] = "closed"]
      /\ UNCHANGED << real_path, frame, parts >>
      /\ pc[h] = "remove"
  BY DEF RemoveTmp, Unlink, Return, handleVars
<1>3. DOMAIN out' = Handles /\ \A g \in Handles : out'[g] = out[g]
  <2>1. \A g \in Handles : out[g] # n
    BY <1>1, <1>2, TmpIsOwn, NamesDiffer
       DEF WInv, TargetsInv, WritingInv, Busy
  <2>2. QED
    BY <2>1 DEF RemoveTmp, Unlink
<1>4. FileShape'
  BY <1>1, <1>2, <1>3 DEF WInv, FileShape, HasParts
<1>5. TargetsInv'
  BY <1>2 DEF WInv, FileShape, TargetsInv, Busy
<1>6. \A g \in Handles : g # h /\ Busy(g) =>
          file'[tmp_path(real_path[g])] = file[tmp_path(real_path[g])]
  BY <1>1, <1>2, TmpIsOwn, NamesDiffer DEF WInv, FileShape, TargetsInv
<1>7. WritingInv'
  <2> SUFFICES ASSUME NEW g \in Handles
               PROVE  /\ pc'[g] # "writing" => out'[g] = NoFile
                      /\ pc'[g] = "writing" =>
                            /\ out'[g] = tmp_path(real_path'[g])
                            /\ HasParts(file'[tmp_path(real_path'[g])])
                            /\ parts'[g] \in 0 .. 2
                            /\ parts'[g] >= 1 =>
                                  file'[tmp_path(real_path'[g])][1] = Part(frame'[g])
                            /\ parts'[g] = 2 =>
                                  file'[tmp_path(real_path'[g])][2] = Part(frame'[g])
    BY DEF WritingInv, Part, HasParts
  <2>1. CASE g = h
    BY <1>2, <1>3, <2>1 DEF WInv, FileShape, WritingInv
  <2>2. CASE g # h
    BY <1>2, <1>3, <1>6, <2>2 DEF WInv, FileShape, WritingInv, Busy
  <2>3. QED
    BY <2>1, <2>2
<1>8. RenameInv'
  BY <1>1, <1>2, <1>6 DEF WInv, FileShape, RenameInv, Whole, Busy
<1>9. ExistingArchivesAreWhole'
  BY <1>1, <1>2, NamesDiffer
     DEF WInv, FileShape, ExistingArchivesAreWhole, FileExists, Whole
<1>10. QED
  BY <1>4, <1>5, <1>7, <1>8, <1>9 DEF WInv

\* Removing and moving archives touches no temporary file and no stream.
LEMMA HostWInv ==
    ASSUME WInv, NEW p \in Paths,
           TryRemoveFile(p) \/ \E q \in Paths : MoveFile(p, q)
    PROVE  WInv'
<1>1. /\ UNCHANGED << pc, real_path, frame, parts >>
      /\ DOMAIN file' = Names
      /\ DOMAIN out' = Handles
  BY DEF WInv, FileShape, TryRemoveFile, MoveFile, Unlink, MoveName, handleVars
<1>2. \A q \in Paths : file'[tmp_path(q)] = file[tmp_path(q)]
  BY NamesDiffer
     DEF WInv, FileShape, TryRemoveFile, MoveFile, Unlink, MoveName
<1>3. \A g \in Handles : out'[g] = out[g]
  <2>1. \A g \in Handles, q \in Paths : out[g] # Archive(q)
    BY NamesDiffer DEF WInv, WritingInv, TargetsInv, Busy
  <2>2. QED
    BY <2>1 DEF TryRemoveFile, MoveFile, Unlink, MoveName
<1>4. \A q \in Paths :
          \/ file'[Archive(q)] = NoFile
          \/ \E r \in Paths : /\ file'[Archive(q)] = file[Archive(r)]
                              /\ file[Archive(r)] # NoFile
  BY NamesDiffer
     DEF WInv, FileShape, TryRemoveFile, MoveFile, Unlink, MoveName, FileExists
<1>5. \A m \in Names : file'[m] # NoFile => HasParts(file'[m])
  BY <1>2, <1>4, NamesDiffer DEF WInv, FileShape, Names
<1>6. FileShape'
  BY <1>1, <1>5 DEF WInv, FileShape, HasParts
<1>7. TargetsInv'
  BY <1>1 DEF WInv, FileShape, TargetsInv, Busy
<1>8. WritingInv'
  <2> SUFFICES ASSUME NEW g \in Handles
               PROVE  /\ pc'[g] # "writing" => out'[g] = NoFile
                      /\ pc'[g] = "writing" =>
                            /\ out'[g] = tmp_path(real_path'[g])
                            /\ HasParts(file'[tmp_path(real_path'[g])])
                            /\ parts'[g] \in 0 .. 2
                            /\ parts'[g] >= 1 =>
                                  file'[tmp_path(real_path'[g])][1] = Part(frame'[g])
                            /\ parts'[g] = 2 =>
                                  file'[tmp_path(real_path'[g])][2] = Part(frame'[g])
    BY DEF WritingInv, Part, HasParts
  <2>1. QED
    BY <1>1, <1>2, <1>3 DEF WInv, FileShape, WritingInv, TargetsInv, Busy
<1>9. RenameInv'
  BY <1>1, <1>2 DEF WInv, FileShape, RenameInv, TargetsInv, Whole, Busy
<1>10. ExistingArchivesAreWhole'
  BY <1>4 DEF WInv, ExistingArchivesAreWhole, FileExists, Whole
<1>11. QED
  BY <1>6, <1>7, <1>8, <1>9, <1>10 DEF WInv

\* After a crash no handle is busy, and the archives are as they were.
LEMMA CrashWInv ==
    ASSUME WInv, Crash
    PROVE  WInv'
<1>1. FileShape' /\ TargetsInv'
  BY DEF WInv, FileShape, TargetsInv, Crash, Busy, HasParts
<1>2. WritingInv' /\ RenameInv'
  BY DEF WritingInv, RenameInv, Crash
<1>3. ExistingArchivesAreWhole'
  BY DEF WInv, Crash, ExistingArchivesAreWhole, FileExists, Whole
<1>4. QED
  BY <1>1, <1>2, <1>3 DEF WInv

\* A step that changes nothing the invariant is about.
LEMMA UnchangedWInv ==
    ASSUME WInv, UNCHANGED << file, pc, real_path, frame, out, parts >>
    PROVE  WInv'
BY DEF WInv, FileShape, TargetsInv, WritingInv, RenameInv, HasParts, Busy,
       Whole, Part, ExistingArchivesAreWhole, FileExists

\* Every step keeps the invariant.
LEMMA NextWInv ==
    ASSUME ~SharedPaths, ~TailCanBeLost
    PROVE  WInv /\ [Next]_vars => WInv'
<1> SUFFICES ASSUME WInv, [Next]_vars
             PROVE  WInv'
  OBVIOUS
<1>1. ASSUME NEW h \in Handles, NEW p \in Targets, NEW s \in Settings,
             OpenFile(h, p, s)
      PROVE  WInv'
  BY <1>1, OpenFileWInv
<1>2. ASSUME NEW h \in Handles, NEW n \in 0 .. MaxSize - 1, Write(h, n, Block)
      PROVE  WInv'
  BY <1>2, UnchangedWInv DEF Write, closeVars, fileVars
<1>3. ASSUME NEW h \in Handles, NEW n \in 0 .. MaxSize, Truncate(h, n)
      PROVE  WInv'
  BY <1>3, UnchangedWInv DEF Truncate, closeVars, fileVars
<1>4. ASSUME NEW h \in Handles, Close(h)
      PROVE  WInv'
  BY <1>4, QuietStep DEF Close, Busy, WInv, FileShape, fileVars, handleVars
<1>5. ASSUME NEW h \in Handles, CloseStep(h)
      PROVE  WInv'
  <2>1. CASE Compress(h)
    BY <2>1, QuietStep
       DEF Compress, Busy, WInv, FileShape, fileVars, handleVars
  <2>2. CASE CompressFails(h) \/ OpenTmpFails(h) \/ WriteFails(h)
    BY <2>2, AttemptFailsWInv DEF CompressFails, OpenTmpFails, WriteFails
  <2>3. CASE OpenTmp(h)
    BY <2>3, OpenTmpWInv
  <2>4. CASE WritePart(h)
    BY <2>4, WritePartWInv
  <2>5. CASE TmpWritten(h)
    BY <2>5, TmpWrittenWInv
  <2>6. CASE Rename(h)
    BY <2>6, RenameWInv
  <2>7. CASE RenameFails(h)
    BY <2>7, QuietStep
       DEF RenameFails, Busy, WInv, FileShape, fileVars, handleVars, closeVars
  <2>8. CASE RemoveTmp(h)
    BY <2>8, RemoveTmpWInv
  <2>9. QED
    BY <1>5, <2>1, <2>2, <2>3, <2>4, <2>5, <2>6, <2>7, <2>8 DEF CloseStep
<1>6. ASSUME NEW h \in Handles, Destroy(h)
      PROVE  WInv'
  BY <1>6, DestroyWInv
<1>7. ASSUME NEW p \in Paths, TryRemoveFile(p)
      PROVE  WInv'
  BY <1>7, HostWInv
<1>8. ASSUME NEW p \in Paths, NEW q \in Paths, MoveFile(p, q)
      PROVE  WInv'
  BY <1>8, HostWInv
<1>9. CASE Crash
  BY <1>9, CrashWInv
<1>10. CASE UNCHANGED vars
  BY <1>10, UnchangedWInv DEF vars, fileVars, handleVars, closeVars
<1>11. QED
  BY <1>1, <1>2, <1>3, <1>4, <1>5, <1>6, <1>7, <1>8, <1>9, <1>10 DEF Next

\* "so a reader never sees a half-written archive": for any number of handles
\* and paths, any retries, failures, crashes, removals and moves, if no two
\* handles write one path at a time and no stream loses what it has accepted.
THEOREM WriteArchivesAreWhole ==
    ASSUME ~SharedPaths, ~TailCanBeLost
    PROVE  Spec => []ExistingArchivesAreWhole
<1>1. WInv => ExistingArchivesAreWhole
  BY DEF WInv
<1>2. WInv /\ [Next]_vars => WInv'
  BY NextWInv
<1>3. QED
  BY InitWInv, <1>1, <1>2, PTL DEF Spec

-----------------------------------------------------------------------------
(* The types, for handles that may share a path and streams that may lose  *)
(* what they hold.                                                         *)

\* A file in two parts, each holding parts of frames.
HoldsParts(f) ==
    HasParts(f) /\ \A k \in 1 .. 2 : f[k] \subseteq Buffers \X Profiles

FilesInv ==
    /\ DOMAIN file = Names
    /\ \A n \in Names : file[n] # NoFile => HoldsParts(file[n])
    /\ \A h \in Handles : out[h] \in Names => HoldsParts(file[out[h]])

\* What a handle has at each point of its life.
HandleOf(h) ==
    /\ pc[h] # "none" =>
          real_path[h] \in Paths /\ write_settings[h] \in GraphOptionsType
    /\ pc[h] \in {"open", "compress", "tmp", "writing"} => write_buffer[h] \in Buffers
    /\ pc[h] \in {"tmp", "writing"} => frame[h] \in Frames
    /\ pc[h] # "writing" => parts[h] = 0
    /\ pc[h] = "writing" <=> out[h] # NoFile
    /\ InClose(h) => closing[h] \in Buffers
    /\ pc[h] # "closed" => result[h] = "none"

HandlesInv == \A h \in Handles : HandleOf(h)

TInv == TypeOK /\ FilesInv /\ HandlesInv

\* A buffer is a sequence of blocks.
LEMMA BufferIs ==
    ASSUME NEW b \in Buffers
    PROVE  b \in [1 .. Len(b) -> {Block, Hole}] /\ Len(b) \in 0 .. MaxSize
<1>1. PICK n \in 0 .. MaxSize : b \in [1 .. n -> {Block, Hole}]
  BY DEF Buffers
<1>2. n \in Nat
  BY WriteAssumption
<1>3. Len(b) = n
  BY <1>1, <1>2
<1> QED  BY <1>1, <1>3

\* And a sequence of at most MaxSize blocks is a buffer.
LEMMA IsBuffer ==
    ASSUME NEW n \in 0 .. MaxSize, NEW b \in [1 .. n -> {Block, Hole}]
    PROVE  b \in Buffers
BY DEF Buffers

\* A buffer that is cut or grown is one.
LEMMA ResizeIsBuffer ==
    ASSUME NEW b \in Buffers, NEW n \in 0 .. MaxSize
    PROVE  Resize(b, n) \in [1 .. n -> {Block, Hole}]
<1>1. b \in [1 .. Len(b) -> {Block, Hole}] /\ Len(b) \in 0 .. MaxSize /\ MaxSize \in Nat
  BY BufferIs, WriteAssumption
<1>2. ASSUME NEW i \in 1 .. n
      PROVE  (IF i <= Len(b) THEN b[i] ELSE Hole) \in {Block, Hole}
  BY <1>1, <1>2
<1> QED  BY <1>2 DEF Resize

\* A write inside the bound leaves a buffer.
LEMMA WriteIsBuffer ==
    ASSUME NEW h \in Handles, NEW location \in 0 .. MaxSize - 1, write_buffer[h] \in Buffers
    PROVE  LET size == IF location >= Len(write_buffer[h]) THEN location + 1
                       ELSE Len(write_buffer[h])
           IN  [Resize(write_buffer[h], size) EXCEPT ![location + 1] = Block] \in Buffers
<1> DEFINE size == IF location >= Len(write_buffer[h]) THEN location + 1
                   ELSE Len(write_buffer[h])
<1>1. Len(write_buffer[h]) \in 0 .. MaxSize /\ MaxSize \in Nat
  BY BufferIs, WriteAssumption
<1>2. size \in 0 .. MaxSize /\ location + 1 \in 1 .. size
  BY <1>1
<1> HIDE DEF size
<1>3. Resize(write_buffer[h], size) \in [1 .. size -> {Block, Hole}]
  BY <1>2, ResizeIsBuffer
<1>4. [Resize(write_buffer[h], size) EXCEPT ![location + 1] = Block]
         \in [1 .. size -> {Block, Hole}]
  BY <1>2, <1>3
<1> QED  BY <1>2, <1>4, IsBuffer DEF size

\* A compression gives a frame of the buffer.
LEMMA CompressedIsFrame ==
    ASSUME NEW h \in Handles, HandleOf(h), pc[h] = "compress",
           NEW f \in Outcomes(h) \ {Error}
    PROVE  f \in Frames /\ f.data = write_buffer[h]
<1>1. f = Frame(write_buffer[h], Graph(h)) /\ ValidateGraphOptions(Graph(h))
  BY CompressedFrame
<1>2. write_settings[h] \in GraphOptionsType /\ write_buffer[h] \in Buffers
  BY DEF HandleOf
<1>3. Writable(f)
  BY <1>1, <1>2, GraphIsTyped, ValidFrames
<1>4. Graph(h).profile \in Profiles
  BY <1>1 DEF ValidateGraphOptions, KnownProfile
<1>5. /\ f = [data |-> f.data, profile |-> f.profile, version |-> f.version, chunk |-> f.chunk]
      /\ f.data = write_buffer[h] /\ f.profile = Graph(h).profile
  BY <1>1 DEF Frame
<1> QED  BY <1>2, <1>3, <1>4, <1>5 DEF Frames, Writable

\* The files that are there at first hold a frame each.
LEMMA OldArchiveHoldsParts == HoldsParts(OldArchive) /\ HoldsParts(Empty)
<1>1. << Block >> \in Buffers
  <2>1. 1 \in 0 .. MaxSize /\ << Block >> \in [1 .. 1 -> {Block, Hole}]
    BY WriteAssumption
  <2> QED  BY <2>1, IsBuffer
<1>2. PICK g : /\ OldArchive = << Part(Frame(<< Block >>, g)), Part(Frame(<< Block >>, g)) >>
               /\ g.profile = "parquet"
  BY DEF OldArchive, OpenzlDefaultGraphOptions
<1>3. Part(Frame(<< Block >>, g)) = { << << Block >>, "parquet" >> }
  BY <1>2 DEF Part, Frame
<1>4. HoldsParts(OldArchive)
  BY <1>1, <1>2, <1>3 DEF HoldsParts, HasParts, Profiles
<1>5. HoldsParts(Empty)
  BY DEF HoldsParts, HasParts, Empty, Blank
<1> QED  BY <1>4, <1>5

\* No handle is open at first.
LEMMA InitTInv == Init => TInv
<1> SUFFICES ASSUME Init PROVE TInv
  OBVIOUS
<1>1. DOMAIN file = Names /\ \A n \in Names : file[n] # NoFile => file[n] = OldArchive
  BY DEF Init
<1>2. FilesInv
  BY <1>1, OldArchiveHoldsParts, NamesAssumption DEF Init, FilesInv
<1>3. HandlesInv
  BY DEF Init, HandlesInv, HandleOf, InClose
<1>4. TypeOK
  BY <1>2, <1>3 DEF Init, TypeOK, FilesInv, HoldsParts, HandlesInv, HandleOf
<1> QED  BY <1>2, <1>3, <1>4 DEF TInv

\* The variables of TypeOK that no part of the invariant bounds further.
TypesOf ==
    /\ leftover \subseteq Paths
    /\ pc \in [Handles -> {"none", "open", "compress", "tmp", "writing",
                           "rename", "remove", "closed"}]
    /\ real_path \in [Handles -> Paths \cup {NULL}]
    /\ write_settings \in [Handles -> GraphOptionsType \cup {NULL}]
    /\ write_buffer \in [Handles -> Buffers \cup {NULL}]
    /\ attempt \in [Handles -> {"first", "generic"}]
    /\ frame \in [Handles -> Frames \cup {NULL}]
    /\ out \in [Handles -> Names \cup {Unlinked, NoFile}]
    /\ parts \in [Handles -> 0 .. 2]
    /\ result \in [Handles -> {"none", "ok", "error"}]
    /\ closing \in [Handles -> Buffers \cup {NULL}]

\* TypeOK in the parts that the steps are proved in.
LEMMA TypesSuffice == TypesOf /\ FilesInv /\ HandlesInv <=> TInv
BY DEF TypesOf, FilesInv, HandlesInv, HandleOf, HoldsParts, TInv, TypeOK

\* A handle that a step does not concern; its stream may have lost its name.
LEMMA KeptHandle ==
    ASSUME NEW g, HandleOf(g),
           UNCHANGED << pc[g], real_path[g], write_settings[g], write_buffer[g],
                        frame[g], parts[g], closing[g], result[g] >>,
           out'[g] = NoFile <=> out[g] = NoFile
    PROVE  HandleOf(g)'
BY DEF HandleOf, InClose

\* A name that is freed takes its file from no other name and no stream.
LEMMA UnlinkFiles ==
    ASSUME TypesOf, FilesInv, NEW n \in Names, Unlink(n)
    PROVE  /\ FilesInv' /\ out' \in [Handles -> Names \cup {Unlinked, NoFile}]
           /\ \A g \in Handles : out'[g] = NoFile <=> out[g] = NoFile
<1>1. /\ file' = [file EXCEPT ![n] = NoFile] /\ DOMAIN file = Names
      /\ \A g \in Handles : out'[g] = IF out[g] = n THEN Unlinked ELSE out[g]
      /\ out \in [Handles -> Names \cup {Unlinked, NoFile}]
      /\ out' \in [Handles -> Names \cup {Unlinked, NoFile}]
  BY DEF Unlink, TypesOf, FilesInv
<1>2. NoFile \notin Names /\ Unlinked \notin Names /\ NoFile # Unlinked
  BY NamesAssumption, WriteAssumption
<1>3. \A m \in Names : file'[m] # NoFile => HoldsParts(file'[m])
  BY <1>1 DEF FilesInv
<1>4. ASSUME NEW g \in Handles, out'[g] \in Names PROVE HoldsParts(file'[out'[g]])
  BY <1>1, <1>2, <1>4 DEF FilesInv
<1>5. DOMAIN file' = Names
  BY <1>1
<1>6. FilesInv'
  BY <1>3, <1>4, <1>5 DEF FilesInv, HoldsParts, HasParts
<1> QED  BY <1>1, <1>2, <1>6

\* A file that is moved takes its stream with it.
LEMMA MoveNameFiles ==
    ASSUME TypesOf, FilesInv, NEW from \in Names, NEW to \in Names, from # to,
           MoveName(from, to)
    PROVE  /\ FilesInv' /\ out' \in [Handles -> Names \cup {Unlinked, NoFile}]
           /\ \A g \in Handles : out'[g] = NoFile <=> out[g] = NoFile
<1>1. /\ file' = [file EXCEPT ![to] = file[from], ![from] = NoFile]
      /\ file[from] # NoFile /\ DOMAIN file = Names
      /\ \A g \in Handles : out'[g] = CASE out[g] = from -> to
                                        [] out[g] = to -> Unlinked
                                        [] OTHER -> out[g]
      /\ out \in [Handles -> Names \cup {Unlinked, NoFile}] /\ DOMAIN out' = Handles
      /\ out' = [g \in Handles |-> out'[g]]
  BY DEF MoveName, TypesOf, FilesInv
<1>2. NoFile \notin Names /\ Unlinked \notin Names /\ NoFile # Unlinked
  BY NamesAssumption, WriteAssumption
<1>3. ASSUME NEW g \in Handles
      PROVE  \/ out[g] = from /\ out'[g] = to
             \/ out[g] = to /\ out'[g] = Unlinked
             \/ out[g] \notin {from, to} /\ out'[g] = out[g]
  BY <1>1
<1>4. \A m \in Names : file'[m] # NoFile => HoldsParts(file'[m])
  BY <1>1 DEF FilesInv
<1>5. ASSUME NEW g \in Handles, out'[g] \in Names PROVE HoldsParts(file'[out'[g]])
  BY <1>1, <1>2, <1>3, <1>5 DEF FilesInv
<1>6. DOMAIN file' = Names
  BY <1>1
<1>7. FilesInv'
  BY <1>4, <1>5, <1>6 DEF FilesInv, HoldsParts, HasParts
<1>8. \A g \in Handles : out'[g] \in Names \cup {Unlinked, NoFile}
  BY <1>1, <1>3
<1> QED  BY <1>1, <1>2, <1>3, <1>7, <1>8

\* Where no file changes and a stream at most is closed.
LEMMA SameFiles ==
    ASSUME TypesOf, FilesInv, UNCHANGED file, NEW h \in Handles,
           UNCHANGED out \/ out' = [out EXCEPT ![h] = NoFile]
    PROVE  FilesInv' /\ out' \in [Handles -> Names \cup {Unlinked, NoFile}]
<1>1. out \in [Handles -> Names \cup {Unlinked, NoFile}] /\ NoFile \notin Names
  BY NamesAssumption DEF TypesOf
<1>2. \A g \in Handles : out'[g] \in Names => out'[g] = out[g]
  BY <1>1
<1> QED  BY <1>1, <1>2 DEF FilesInv, HoldsParts, HasParts

\* The parts of the invariant before a step, and what they say of one handle.
LEMMA TInvParts ==
    ASSUME TInv
    PROVE  /\ TypesOf /\ FilesInv
           /\ \A g \in Handles :
                 /\ HandleOf(g)
                 /\ pc[g] # "none" =>
                       real_path[g] \in Paths /\ Archive(real_path[g]) \in Names
                       /\ tmp_path(real_path[g]) \in Names
<1>1. TypesOf /\ FilesInv /\ HandlesInv
  BY TypesSuffice
<1> QED  BY <1>1, NamesDiffer DEF HandlesInv, HandleOf

\* A step that changes no file and no handle but h.
LEMMA HandleStep ==
    ASSUME TInv, NEW h \in Handles, TypesOf', FilesInv', HandleOf(h)',
           \A g \in Handles \ {h} :
              /\ UNCHANGED << pc[g], real_path[g], write_settings[g], write_buffer[g],
                              frame[g], parts[g], closing[g], result[g] >>
              /\ out'[g] = NoFile <=> out[g] = NoFile
    PROVE  TInv'
<1>1. ASSUME NEW g \in Handles PROVE HandleOf(g)'
  BY KeptHandle, TInvParts
<1>2. HandlesInv'
  BY <1>1 DEF HandlesInv
<1>3. TypeOK'
  BY <1>2 DEF TypesOf, FilesInv, HandlesInv, HandleOf, HoldsParts, TypeOK
<1> QED  BY <1>2, <1>3 DEF TInv

\* Opening, writing and dropping a handle, and the call of Close.
LEMMA UserTInv ==
    ASSUME TInv, NEW h \in Handles,
           \/ \E p \in Targets, s \in Settings : OpenFile(h, p, s)
           \/ \E n \in 0 .. MaxSize - 1 : Write(h, n, Block)
           \/ \E n \in 0 .. MaxSize : Truncate(h, n)
           \/ Close(h) \/ Destroy(h)
    PROVE  TInv'
<1> USE DEF fileVars, closeVars, handleVars
<1>a. TypesOf /\ FilesInv /\ HandleOf(h)
  BY TInvParts
<1>b. UNCHANGED << file, out, leftover, frame, parts >>
  BY DEF OpenFile, Write, Truncate, Close, Destroy
<1>c. FilesInv'
  BY <1>a, <1>b, SameFiles
<1>1. ASSUME NEW p \in Targets, NEW s \in Settings, OpenFile(h, p, s) PROVE TInv'
  <2>1. OpenzlDefaultGraphOptions(s) \in GraphOptionsType /\ << >> \in Buffers /\ p \in Paths
    <3>1. 0 \in 0 .. MaxSize /\ << >> \in [1 .. 0 -> {Block, Hole}]
      BY WriteAssumption
    <3> QED  BY <3>1, IsBuffer, SettingsAreRead, SettingsAssumption, WriteAssumption
  <2>2. TypesOf'
    BY <1>a, <1>b, <1>1, <2>1 DEF TypesOf, OpenFile
  <2>3. HandleOf(h)'
    BY <1>a, <1>b, <1>1, <2>1 DEF TypesOf, HandleOf, InClose, OpenFile
  <2> QED  BY <1>a, <1>b, <1>c, <1>1, <2>2, <2>3, HandleStep DEF TypesOf, OpenFile
<1>2. ASSUME NEW n \in 0 .. MaxSize - 1, Write(h, n, Block) PROVE TInv'
  <2>1. /\ UNCHANGED << pc, real_path, write_settings, attempt, result, closing >>
        /\ pc[h] \in {"open", "closed"} /\ write_buffer[h] \in Buffers
    BY <1>a, <1>2 DEF TypesOf, Write, CanWrite
  <2>2. PICK b \in Buffers : write_buffer' = [write_buffer EXCEPT ![h] = b]
    BY <1>2, <2>1, WriteIsBuffer DEF Write
  <2>3. TypesOf'
    BY <1>a, <1>b, <2>1, <2>2 DEF TypesOf
  <2>4. HandleOf(h)'
    BY <1>a, <1>b, <2>1, <2>2 DEF TypesOf, HandleOf, InClose
  <2> QED  BY <1>a, <1>b, <1>c, <2>1, <2>2, <2>3, <2>4, HandleStep DEF TypesOf
<1>3. ASSUME NEW n \in 0 .. MaxSize, Truncate(h, n) PROVE TInv'
  <2>1. /\ UNCHANGED << pc, real_path, write_settings, attempt, result, closing >>
        /\ pc[h] \in {"open", "closed"} /\ write_buffer[h] \in Buffers
    BY <1>a, <1>3 DEF TypesOf, Truncate, CanWrite
  <2>2. PICK b \in Buffers : write_buffer' = [write_buffer EXCEPT ![h] = b]
    <3>1. Resize(write_buffer[h], n) \in Buffers
      BY <2>1, ResizeIsBuffer, IsBuffer
    <3> QED  BY <1>3, <3>1 DEF Truncate
  <2>3. TypesOf'
    BY <1>a, <1>b, <2>1, <2>2 DEF TypesOf
  <2>4. HandleOf(h)'
    BY <1>a, <1>b, <2>1, <2>2 DEF TypesOf, HandleOf, InClose
  <2> QED  BY <1>a, <1>b, <1>c, <2>1, <2>2, <2>3, <2>4, HandleStep DEF TypesOf
<1>4. CASE Close(h)
  <2>1. TypesOf'
    BY <1>a, <1>b, <1>4 DEF TypesOf, HandleOf, Close
  <2>2. HandleOf(h)'
    BY <1>a, <1>b, <1>4 DEF TypesOf, HandleOf, InClose, Close
  <2> QED  BY <1>a, <1>b, <1>c, <1>4, <2>1, <2>2, HandleStep DEF TypesOf, Close
<1>5. CASE Destroy(h)
  <2>1. TypesOf'
    BY <1>a, <1>b, <1>5 DEF TypesOf, Destroy
  <2>2. HandleOf(h)'
    BY <1>a, <1>b, <1>5 DEF TypesOf, HandleOf, InClose, Destroy
  <2> QED  BY <1>a, <1>b, <1>c, <1>5, <2>1, <2>2, HandleStep DEF TypesOf, Destroy
<1> QED  BY <1>1, <1>2, <1>3, <1>4, <1>5

\* The steps of Close before there is a temporary file, and when an attempt
\* fails.
LEMMA AttemptTInv ==
    ASSUME TInv, NEW h \in Handles,
           \/ Compress(h) \/ TmpWritten(h) \/ RenameFails(h)
           \/ CompressFails(h) \/ OpenTmpFails(h) \/ WriteFails(h)
    PROVE  TInv'
<1> USE DEF fileVars, closeVars, handleVars
<1>a. TypesOf /\ FilesInv /\ HandleOf(h)
  BY TInvParts
<1>b. UNCHANGED << file, leftover, real_path, write_settings, result, closing >>
  BY DEF Compress, TmpWritten, RenameFails, CompressFails, OpenTmpFails, WriteFails, AttemptFails
<1>c. UNCHANGED out \/ out' = [out EXCEPT ![h] = NoFile]
  BY DEF Compress, TmpWritten, RenameFails, CompressFails, OpenTmpFails, WriteFails, AttemptFails
<1>d. FilesInv' /\ out' \in [Handles -> Names \cup {Unlinked, NoFile}]
  BY <1>a, <1>b, <1>c, SameFiles
<1>1. CASE Compress(h)
  <2>1. pc[h] = "compress" /\ pc' = [pc EXCEPT ![h] = "tmp"]
        /\ UNCHANGED << write_buffer, attempt, out, parts >>
    BY <1>1 DEF Compress
  <2>2. PICK f \in Frames : frame' = [frame EXCEPT ![h] = f]
    BY <1>a, <1>1, <2>1, CompressedIsFrame DEF Compress
  <2>3. TypesOf'
    BY <1>a, <1>b, <2>1, <2>2 DEF TypesOf
  <2>4. HandleOf(h)'
    BY <1>a, <1>b, <2>1, <2>2 DEF TypesOf, HandleOf, InClose
  <2> QED  BY <1>a, <1>b, <1>d, <2>1, <2>2, <2>3, <2>4, HandleStep DEF TypesOf
<1>2. CASE TmpWritten(h)
  <2>1. TypesOf'
    BY <1>a, <1>b, <1>d, <1>2 DEF TypesOf, TmpWritten
  <2>2. HandleOf(h)'
    BY <1>a, <1>b, <1>2 DEF TypesOf, HandleOf, InClose, TmpWritten
  <2> QED  BY <1>a, <1>b, <1>d, <1>2, <2>1, <2>2, HandleStep DEF TypesOf, TmpWritten
<1>3. CASE RenameFails(h)
  <2>1. TypesOf'
    BY <1>a, <1>b, <1>d, <1>3 DEF TypesOf, RenameFails
  <2>2. HandleOf(h)'
    BY <1>a, <1>b, <1>3 DEF TypesOf, HandleOf, InClose, RenameFails
  <2> QED  BY <1>a, <1>b, <1>d, <1>3, <2>1, <2>2, HandleStep DEF TypesOf, RenameFails
<1>4. CASE CompressFails(h) \/ OpenTmpFails(h) \/ WriteFails(h)
  <2>1. pc[h] \in {"compress", "tmp", "writing"} /\ AttemptFails(h)
    BY <1>4 DEF CompressFails, OpenTmpFails, WriteFails
  <2>2. PICK v \in {"compress", "remove"} : pc' = [pc EXCEPT ![h] = v]
    BY <2>1 DEF AttemptFails
  <2>3. /\ frame' = [frame EXCEPT ![h] = NULL] /\ out' = [out EXCEPT ![h] = NoFile]
        /\ parts' = [parts EXCEPT ![h] = 0] /\ UNCHANGED write_buffer
        /\ UNCHANGED attempt \/ attempt' = [attempt EXCEPT ![h] = "generic"]
    BY <2>1 DEF AttemptFails
  <2>4. /\ attempt' \in [Handles -> {"first", "generic"}]
        /\ frame' \in [Handles -> Frames \cup {NULL}] /\ parts' \in [Handles -> 0 .. 2]
        /\ pc' \in [Handles -> {"none", "open", "compress", "tmp", "writing",
                               "rename", "remove", "closed"}]
    <3>1. attempt' \in [Handles -> {"first", "generic"}]
      BY <1>a, <2>3 DEF TypesOf
    <3>2. frame' \in [Handles -> Frames \cup {NULL}] /\ parts' \in [Handles -> 0 .. 2]
      BY <1>a, <2>3 DEF TypesOf
    <3>3. pc' \in [Handles -> {"none", "open", "compress", "tmp", "writing",
                              "rename", "remove", "closed"}]
      BY <1>a, <2>2 DEF TypesOf
    <3> QED  BY <3>1, <3>2, <3>3
  <2>5. TypesOf'
    BY <1>a, <1>b, <1>d, <2>3, <2>4 DEF TypesOf
  <2>6. HandleOf(h)'
    BY <1>a, <1>b, <2>1, <2>2, <2>3 DEF TypesOf, HandleOf, InClose
  <2> QED  BY <1>a, <1>b, <1>d, <2>2, <2>3, <2>5, <2>6, HandleStep DEF TypesOf
<1> QED  BY <1>1, <1>2, <1>3, <1>4

\* The steps of Close that write, rename or remove the temporary file.
LEMMA FileTInv ==
    ASSUME TInv, NEW h \in Handles,
           OpenTmp(h) \/ WritePart(h) \/ Rename(h) \/ RemoveTmp(h)
    PROVE  TInv'
<1> USE DEF fileVars, handleVars
<1>a. /\ TypesOf /\ FilesInv /\ HandleOf(h) /\ real_path[h] \in Paths
      /\ Archive(real_path[h]) \in Names /\ tmp_path(real_path[h]) \in Names
      /\ Archive(real_path[h]) # tmp_path(real_path[h])
  <2>1. pc[h] # "none"
    BY DEF OpenTmp, WritePart, Rename, RemoveTmp
  <2> QED  BY <2>1, TInvParts, NamesDiffer
<1>b. UNCHANGED << real_path, write_settings, write_buffer, frame >>
  BY DEF OpenTmp, WritePart, Rename, RemoveTmp
<1>1. CASE OpenTmp(h)
  <2> DEFINE n == tmp_path(real_path[h])
  <2>1. /\ file' = [file EXCEPT ![n] = Empty] /\ out' = [out EXCEPT ![h] = n]
        /\ pc' = [pc EXCEPT ![h] = "writing"] /\ pc[h] = "tmp"
        /\ UNCHANGED << attempt, parts, result, closing >>
        /\ leftover' \subseteq leftover
    BY <1>1 DEF OpenTmp
  <2>2. FilesInv'
    <3>1. DOMAIN file' = Names /\ (\A m \in Names : file'[m] # NoFile => HoldsParts(file'[m]))
      BY <1>a, <2>1, OldArchiveHoldsParts DEF FilesInv
    <3>2. ASSUME NEW g \in Handles, out'[g] \in Names PROVE HoldsParts(file'[out'[g]])
      BY <1>a, <2>1, <3>2, OldArchiveHoldsParts DEF FilesInv, TypesOf
    <3> QED  BY <3>1, <3>2 DEF FilesInv, HoldsParts, HasParts
  <2>3. TypesOf'
    BY <1>a, <1>b, <2>1 DEF TypesOf
  <2>4. HandleOf(h)'
    BY <1>a, <1>b, <2>1, NamesAssumption DEF TypesOf, HandleOf, InClose
  <2> QED  BY <1>a, <1>b, <2>1, <2>2, <2>3, <2>4, HandleStep DEF TypesOf
<1>2. CASE WritePart(h)
  <2>1. /\ pc[h] = "writing" /\ parts[h] \in 0 .. 1 /\ parts' = [parts EXCEPT ![h] = parts[h] + 1]
        /\ UNCHANGED << leftover, pc, out, attempt, result, closing >>
    BY <1>a, <1>2 DEF WritePart, TypesOf
  <2>2. FilesInv'
    <3>1. CASE out[h] = Unlinked
      <4>1. UNCHANGED << file, out >>
        BY <1>2, <2>1, <3>1 DEF WritePart
      <4> QED  BY <1>a, <4>1, SameFiles
    <3>2. CASE out[h] # Unlinked
      <4>1. out[h] \in Names /\ HoldsParts(file[out[h]]) /\ frame[h] \in Frames
        BY <1>a, <2>1, <3>2 DEF TypesOf, FilesInv, HandleOf
      <4>2. Part(frame[h]) \subseteq Buffers \X Profiles
        BY <4>1 DEF Part, Frames
      <4> DEFINE f == [file[out[h]] EXCEPT ![parts[h] + 1] = Part(frame[h])]
      <4>3. HoldsParts(f)
        BY <2>1, <4>1, <4>2 DEF HoldsParts, HasParts
      <4>4. file' = [file EXCEPT ![out[h]] = f]
        BY <1>2, <3>2 DEF WritePart
      <4> HIDE DEF f
      <4>5. /\ DOMAIN file' = Names
            /\ \A m \in Names : file'[m] = IF m = out[h] THEN f ELSE file[m]
        BY <1>a, <4>4 DEF FilesInv
      <4>6. \A m \in Names : file'[m] # NoFile => HoldsParts(file'[m])
        BY <1>a, <4>3, <4>5 DEF FilesInv
      <4>7. \A g \in Handles : out'[g] \in Names => HoldsParts(file'[out'[g]])
        BY <1>a, <2>1, <4>3, <4>5 DEF FilesInv
      <4> QED  BY <4>5, <4>6, <4>7 DEF FilesInv, HoldsParts, HasParts
    <3> QED  BY <3>1, <3>2
  <2>3. parts' \in [Handles -> 0 .. 2]
    BY <1>a, <2>1 DEF TypesOf
  <2>4. TypesOf'
    BY <1>a, <1>b, <2>1, <2>3 DEF TypesOf
  <2>5. HandleOf(h)'
    BY <1>a, <1>b, <2>1 DEF HandleOf, InClose
  <2> QED  BY <1>a, <1>b, <2>1, <2>2, <2>4, <2>5, HandleStep DEF TypesOf
<1>3. CASE Rename(h) \/ RemoveTmp(h)
  <2>1. /\ pc[h] \in {"rename", "remove"} /\ UNCHANGED parts
        /\ leftover' \subseteq leftover
        /\ Return(h, "ok") \/ Return(h, "error")
    BY <1>3 DEF Rename, RemoveTmp
  <2>2. /\ FilesInv' /\ out' \in [Handles -> Names \cup {Unlinked, NoFile}]
        /\ \A g \in Handles : out'[g] = NoFile <=> out[g] = NoFile
    BY <1>a, <1>3, UnlinkFiles, MoveNameFiles DEF Rename, RemoveTmp
  <2>3. PICK r \in {"ok", "error"} : result' = [result EXCEPT ![h] = r]
    BY <2>1 DEF Return
  <2>4. /\ pc' = [pc EXCEPT ![h] = "closed"] /\ closing' = [closing EXCEPT ![h] = NULL]
        /\ attempt' = [attempt EXCEPT ![h] = "first"]
    BY <2>1 DEF Return
  <2>5. TypesOf'
    BY <1>a, <1>b, <2>1, <2>2, <2>3, <2>4 DEF TypesOf
  <2>6. HandleOf(h)'
    BY <1>a, <1>b, <2>1, <2>2, <2>4 DEF TypesOf, HandleOf, InClose
  <2> QED  BY <1>a, <1>b, <2>1, <2>2, <2>3, <2>4, <2>5, <2>6, HandleStep DEF TypesOf
<1> QED  BY <1>1, <1>2, <1>3

\* Every step keeps the types.
LEMMA NextTInv == TInv /\ [Next]_vars => TInv'
<1> SUFFICES ASSUME TInv, [Next]_vars PROVE TInv'
  OBVIOUS
<1>a. TypesOf /\ FilesInv /\ HandlesInv
  BY TypesSuffice
<1>1. ASSUME NEW h \in Handles,
             \/ \E p \in Targets, s \in Settings : OpenFile(h, p, s)
             \/ \E n \in 0 .. MaxSize - 1 : Write(h, n, Block)
             \/ \E n \in 0 .. MaxSize : Truncate(h, n)
             \/ Close(h) \/ CloseStep(h) \/ Destroy(h)
      PROVE  TInv'
  BY <1>1, UserTInv, AttemptTInv, FileTInv DEF CloseStep
<1>2. ASSUME NEW p \in Paths, TryRemoveFile(p) \/ \E q \in Paths : MoveFile(p, q)
      PROVE  TInv'
  <2>1. /\ FilesInv' /\ out' \in [Handles -> Names \cup {Unlinked, NoFile}]
        /\ \A g \in Handles : out'[g] = NoFile <=> out[g] = NoFile
    <3>1. CASE TryRemoveFile(p)
      BY <1>a, <3>1, UnlinkFiles, NamesDiffer DEF TryRemoveFile
    <3>2. ASSUME NEW q \in Paths, MoveFile(p, q)
          PROVE  /\ FilesInv' /\ out' \in [Handles -> Names \cup {Unlinked, NoFile}]
                 /\ \A g \in Handles : out'[g] = NoFile <=> out[g] = NoFile
      <4>1. Archive(p) \in Names /\ Archive(q) \in Names /\ Archive(p) # Archive(q)
        BY <3>2, NamesDiffer DEF MoveFile
      <4> QED  BY <1>a, <3>2, <4>1, MoveNameFiles DEF MoveFile
    <3> QED  BY <1>2, <3>1, <3>2
  <2>2. UNCHANGED << leftover, pc, real_path, write_settings, write_buffer, attempt, frame,
                     parts, result, closing >>
    BY <1>2 DEF TryRemoveFile, MoveFile, handleVars
  <2>3. TypesOf'
    BY <1>a, <2>1, <2>2 DEF TypesOf
  <2>4. ASSUME NEW g \in Handles PROVE HandleOf(g)'
    BY <1>a, <2>1, <2>2, KeptHandle DEF HandlesInv
  <2>5. HandlesInv'
    BY <2>4 DEF HandlesInv
  <2> QED  BY <2>1, <2>3, <2>5 DEF TypesOf, FilesInv, HandlesInv, HandleOf, HoldsParts, TInv, TypeOK
<1>3. CASE Crash
  <2>1. FilesInv'
    BY <1>a, <1>3, NamesAssumption DEF FilesInv, HoldsParts, HasParts, Crash
  <2>2. TypesOf'
    BY <1>a, <1>3 DEF TypesOf, Crash
  <2>3. HandlesInv'
    BY <1>3 DEF HandlesInv, HandleOf, InClose, Crash
  <2> QED  BY <2>1, <2>2, <2>3
           DEF TypesOf, FilesInv, HandlesInv, HandleOf, HoldsParts, TInv, TypeOK
<1>4. CASE UNCHANGED vars
  <2>1. UNCHANGED << file, leftover, pc, real_path, write_settings, write_buffer, attempt,
                     frame, out, parts, result, closing >>
    BY <1>4 DEF vars, fileVars, handleVars, closeVars
  <2>2. TypeOK' /\ FilesInv'
    BY <2>1 DEF TInv, TypeOK, FilesInv, HoldsParts, HasParts
  <2>3. HandlesInv'
    BY <1>a, <2>1 DEF HandlesInv, HandleOf, InClose
  <2> QED  BY <2>2, <2>3 DEF TInv
<1> QED  BY <1>1, <1>2, <1>3, <1>4 DEF Next

\* The state of every handle is one the code can be in, and every file holds
\* parts of frames, even when two handles write one path.
THEOREM WriteTypeOK == Spec => []TypeOK
<1>1. TInv => TypeOK
  BY DEF TInv
<1> QED  BY InitTInv, NextTInv, <1>1, PTL DEF Spec

-----------------------------------------------------------------------------
(* Temporary files do not stay behind.                                     *)

\* A stream that writes to a temporary file writes to its own handle's.
StreamInv ==
    \A h \in Handles, p \in Paths : out[h] = tmp_path(p) => real_path[h] = p

TmpInv == TInv /\ StreamInv /\ TmpOnlyWhileClosing

\* A step that changes no temporary file and ends no Close.
LEMMA TmpKept ==
    ASSUME TmpOnlyWhileClosing, leftover \subseteq leftover',
           \A p \in Paths : file'[tmp_path(p)] # NoFile => file[tmp_path(p)] # NoFile,
           \A h \in Handles : InClose(h) => pc'[h] \notin {"none", "open", "closed"}
                                            /\ real_path'[h] = real_path[h]
    PROVE  TmpOnlyWhileClosing'
BY DEF TmpOnlyWhileClosing, InClose

\* The step of Close that leaves no temporary file at its path.
LEMMA TmpGone ==
    ASSUME TInv, StreamInv, TmpOnlyWhileClosing, NEW h \in Handles, Rename(h) \/ RemoveTmp(h)
    PROVE  StreamInv' /\ TmpOnlyWhileClosing'
<1>1. /\ DOMAIN file = Names /\ real_path[h] \in Paths /\ TypesOf
  <2>1. pc[h] # "none"
    BY DEF Rename, RemoveTmp
  <2> QED  BY <2>1, TInvParts DEF FilesInv
<1>2. /\ leftover' = leftover \ {real_path[h]} /\ pc' = [pc EXCEPT ![h] = "closed"]
      /\ UNCHANGED real_path
  BY DEF Rename, RemoveTmp, Return, handleVars
<1>3. \A p \in Paths : file'[tmp_path(p)] =
          IF p = real_path[h] THEN NoFile ELSE file[tmp_path(p)]
  BY <1>1, NamesDiffer DEF Rename, RemoveTmp, MoveName, Unlink
<1>4. TmpOnlyWhileClosing'
  BY <1>1, <1>2, <1>3 DEF TmpOnlyWhileClosing, InClose, TypesOf
<1>5. ASSUME NEW g \in Handles, NEW p \in Paths, out'[g] = tmp_path(p)
      PROVE  out[g] = tmp_path(p)
  <2>1. tmp_path(p) # Unlinked /\ tmp_path(p) # Archive(real_path[h])
    BY <1>1, NamesDiffer, NamesAssumption
  <2> QED  BY <1>5, <2>1 DEF Rename, RemoveTmp, MoveName, Unlink
<1>6. StreamInv'
  BY <1>2, <1>5 DEF StreamInv
<1> QED  BY <1>4, <1>6

\* The steps of Close that make or write the temporary file.
LEMMA TmpMade ==
    ASSUME TInv, StreamInv, TmpOnlyWhileClosing, NEW h \in Handles, OpenTmp(h) \/ WritePart(h)
    PROVE  StreamInv' /\ TmpOnlyWhileClosing'
<1>1. /\ DOMAIN file = Names /\ real_path[h] \in Paths /\ TypesOf /\ HandleOf(h)
      /\ pc[h] \in {"tmp", "writing"}
  <2>1. pc[h] \in {"tmp", "writing"}
    BY DEF OpenTmp, WritePart
  <2> QED  BY <2>1, TInvParts DEF FilesInv
<1>2. /\ InClose(h) /\ InClose(h)' /\ UNCHANGED real_path
      /\ \A g \in Handles : InClose(g) => InClose(g)'
      /\ leftover \subseteq leftover' \cup {real_path[h]}
  BY <1>1 DEF OpenTmp, WritePart, InClose, handleVars, TypesOf
<1>3. ASSUME NEW p \in Paths, file'[tmp_path(p)] # NoFile, p # real_path[h]
      PROVE  file[tmp_path(p)] # NoFile
  <2>1. tmp_path(p) \in Names /\ tmp_path(p) # tmp_path(real_path[h])
    BY <1>1, <1>3, NamesDiffer
  <2>2. CASE OpenTmp(h)
    BY <1>1, <1>3, <2>1, <2>2 DEF OpenTmp
  <2>3. CASE WritePart(h)
    <3>1. out[h] # tmp_path(p)
      BY <1>3 DEF StreamInv
    <3> QED  BY <1>1, <1>3, <2>1, <2>3, <3>1 DEF WritePart
  <2> QED  BY <2>2, <2>3
<1>4. TmpOnlyWhileClosing'
  <2> SUFFICES ASSUME NEW p \in Paths, file'[tmp_path(p)] # NoFile
               PROVE  p \in leftover' \/ \E g \in Handles : InClose(g)' /\ real_path'[g] = p
    BY DEF TmpOnlyWhileClosing, InClose
  <2>1. CASE p = real_path[h]
    BY <1>2, <2>1
  <2>2. CASE p # real_path[h]
    BY <1>2, <1>3, <2>2 DEF TmpOnlyWhileClosing
  <2> QED  BY <2>1, <2>2
<1>5. StreamInv'
  <2>1. UNCHANGED out \/ out' = [out EXCEPT ![h] = tmp_path(real_path[h])]
    BY DEF OpenTmp, WritePart
  <2> QED  BY <1>1, <1>2, <2>1, NamesDiffer DEF StreamInv, TypesOf
<1> QED  BY <1>4, <1>5

\* Every step keeps both.
LEMMA NextTmpInv == TmpInv /\ [Next]_vars => TmpInv'
<1> SUFFICES ASSUME TmpInv, [Next]_vars PROVE TmpInv'
  OBVIOUS
<1> USE DEF fileVars, handleVars, closeVars
<1>a. TInv' /\ TInv /\ StreamInv /\ TmpOnlyWhileClosing
  BY NextTInv DEF TmpInv
<1>b. TypesOf /\ DOMAIN file = Names /\ HandlesInv
  BY <1>a, TInvParts DEF FilesInv, HandlesInv
<1>c. \A p \in Paths : tmp_path(p) # NoFile /\ tmp_path(p) # Unlinked
  BY NamesDiffer, NamesAssumption
<1>1. ASSUME NEW h \in Handles,
             \/ \E p \in Targets, s \in Settings : OpenFile(h, p, s)
             \/ \E n \in 0 .. MaxSize - 1 : Write(h, n, Block)
             \/ \E n \in 0 .. MaxSize : Truncate(h, n)
             \/ Close(h) \/ Destroy(h)
      PROVE  StreamInv' /\ TmpOnlyWhileClosing'
  <2>1. UNCHANGED << file, leftover, out >>
    BY <1>1 DEF OpenFile, Write, Truncate, Close, Destroy
  <2>2. \A g \in Handles :
           /\ InClose(g) => pc'[g] \notin {"none", "open", "closed"}
           /\ InClose(g) => real_path'[g] = real_path[g]
    BY <1>1, <1>b DEF OpenFile, Write, Truncate, Close, Destroy, InClose, TypesOf
  <2>3. \A g \in Handles, p \in Paths : out[g] = tmp_path(p) => InClose(g)
    BY <1>b, <1>c DEF HandlesInv, HandleOf, InClose
  <2>4. StreamInv'
    BY <1>a, <2>1, <2>2, <2>3 DEF StreamInv
  <2> QED  BY <1>a, <2>1, <2>2, <2>4, TmpKept
<1>2. ASSUME NEW h \in Handles,
             \/ Compress(h) \/ TmpWritten(h) \/ RenameFails(h)
             \/ CompressFails(h) \/ OpenTmpFails(h) \/ WriteFails(h)
      PROVE  StreamInv' /\ TmpOnlyWhileClosing'
  <2>1. UNCHANGED << file, leftover, real_path >>
    BY <1>2 DEF Compress, TmpWritten, RenameFails, CompressFails, OpenTmpFails, WriteFails,
                AttemptFails
  <2>2. UNCHANGED out \/ out' = [out EXCEPT ![h] = NoFile]
    BY <1>2 DEF Compress, TmpWritten, RenameFails, CompressFails, OpenTmpFails, WriteFails,
                AttemptFails
  <2>3. \A g \in Handles : InClose(g) => pc'[g] \notin {"none", "open", "closed"}
    BY <1>2, <1>b DEF Compress, TmpWritten, RenameFails, CompressFails, OpenTmpFails,
                WriteFails, AttemptFails, InClose, TypesOf
  <2>4. StreamInv'
    BY <1>a, <1>b, <1>c, <2>1, <2>2 DEF StreamInv, TypesOf
  <2> QED  BY <1>a, <2>1, <2>3, <2>4, TmpKept
<1>3. ASSUME NEW h \in Handles, OpenTmp(h) \/ WritePart(h) \/ Rename(h) \/ RemoveTmp(h)
      PROVE  StreamInv' /\ TmpOnlyWhileClosing'
  BY <1>a, <1>3, TmpMade, TmpGone
<1>4. ASSUME NEW p \in Paths, TryRemoveFile(p) \/ \E q \in Paths : MoveFile(p, q)
      PROVE  StreamInv' /\ TmpOnlyWhileClosing'
  <2>1. UNCHANGED << leftover, pc, real_path >>
    BY <1>4 DEF TryRemoveFile, MoveFile
  <2>2. \A q \in Paths : file'[tmp_path(q)] = file[tmp_path(q)]
    BY <1>4, <1>b, NamesDiffer DEF TryRemoveFile, MoveFile, Unlink, MoveName
  <2>3. \A g \in Handles, q \in Paths : out'[g] = tmp_path(q) => out[g] = tmp_path(q)
    BY <1>4, <1>c, NamesDiffer DEF TryRemoveFile, MoveFile, Unlink, MoveName
  <2>4. StreamInv'
    BY <1>a, <2>1, <2>3 DEF StreamInv
  <2> QED  BY <1>a, <2>1, <2>2, <2>4, TmpKept DEF InClose
<1>5. CASE Crash
  <2>1. /\ UNCHANGED file /\ leftover' = { p \in Paths : file[tmp_path(p)] # NoFile }
        /\ out' = [h \in Handles |-> NoFile]
    BY <1>5 DEF Crash
  <2>2. StreamInv'
    BY <1>c, <2>1 DEF StreamInv
  <2>3. TmpOnlyWhileClosing'
    BY <2>1 DEF TmpOnlyWhileClosing
  <2> QED  BY <1>a, <2>2, <2>3 DEF TmpInv
<1>6. CASE UNCHANGED vars
  <2>1. UNCHANGED << file, leftover, pc, real_path, out >>
    BY <1>6 DEF vars
  <2>2. StreamInv' /\ TmpOnlyWhileClosing'
    BY <1>a, <2>1 DEF StreamInv, TmpOnlyWhileClosing, InClose
  <2> QED  BY <1>a, <2>2 DEF TmpInv
<1>7. ASSUME NEW h \in Handles, CloseStep(h) PROVE StreamInv' /\ TmpOnlyWhileClosing'
  BY <1>2, <1>3, <1>7 DEF CloseStep
<1> QED  BY <1>a, <1>1, <1>4, <1>5, <1>6, <1>7 DEF Next, TmpInv

\* No failure, no retry and no handle at the same path leaves a temporary file
\* behind that no Close in progress and no crash accounts for.
THEOREM WriteTmpOnlyWhileClosing == Spec => []TmpOnlyWhileClosing
<1>1. Init => TmpInv
  BY InitTInv, NamesDiffer DEF Init, TmpInv, StreamInv, TmpOnlyWhileClosing
<1>2. TmpInv => TmpOnlyWhileClosing
  BY DEF TmpInv
<1> QED  BY NextTmpInv, <1>1, <1>2, PTL DEF Spec

-----------------------------------------------------------------------------
(* openzl:// implements ArchiveStore, if no two handles write one path at  *)
(* a time and a stream's destructor writes what it holds.                  *)

\* A whole file whose frame holds the data x[1].
IsFileOf(f, x) == f = << {x}, {x} >>

\* What a reader gets of a file.
Reads(f) ==
    IF f = NoFile THEN NoFile
    ELSE IF Whole(f) THEN (CHOOSE part \in f[1] : TRUE)[1]
    ELSE Error

\* Every archive holds one frame in both of its parts.
HeldInv ==
    \A p \in Paths :
        FileExists(p) => \E x \in Buffers \X Profiles : IsFileOf(file[Archive(p)], x)

\* Until its file is in place a Close has the data it was called on: in its
\* buffer, then in the frame, then in the temporary file.
DataOf(h) ==
    /\ pc[h] \in {"compress", "tmp", "writing"} => closing[h] = write_buffer[h]
    /\ pc[h] \in {"tmp", "writing"} => frame[h].data = closing[h]
    /\ pc[h] = "rename" =>
          LET f == file[tmp_path(real_path[h])]
          IN  f # NoFile => \E q \in Profiles : IsFileOf(f, << closing[h], q >>)

DInv == WInv /\ TInv /\ HeldInv /\ \A h \in Handles : DataOf(h)

\* What a reader gets of a whole file, and of none.
LEMMA ReadsIs ==
    /\ Reads(NoFile) = NoFile
    /\ \A f, x : f # NoFile /\ IsFileOf(f, x) => Reads(f) = x[1]
<1> SUFFICES ASSUME NEW f, NEW x, f # NoFile, IsFileOf(f, x)
             PROVE  Reads(f) = x[1]
  BY DEF Reads
<1>1. f[1] = {x} /\ f[2] = {x}
  BY DEF IsFileOf
<1>2. Whole(f)
  BY <1>1 DEF Whole, Blank
<1>3. (CHOOSE part \in f[1] : TRUE) = x
  BY <1>1
<1> QED  BY <1>2, <1>3 DEF Reads

\* A step that does not concern a handle keeps what it has.
LEMMA KeptData ==
    ASSUME NEW g, DataOf(g),
           UNCHANGED << pc[g], real_path[g], write_buffer[g], frame[g], closing[g] >>,
           pc[g] = "rename" =>
              file'[tmp_path(real_path[g])] = file[tmp_path(real_path[g])]
    PROVE  DataOf(g)'
BY DEF DataOf, IsFileOf

\* What a step of one handle leaves to the others, and to the archives unless
\* it is a rename.
LEMMA OwnFiles ==
    ASSUME DInv, NEW h \in Handles,
           \/ \E p \in Targets, s \in Settings : OpenFile(h, p, s)
           \/ \E n \in 0 .. MaxSize - 1 : Write(h, n, Block)
           \/ \E n \in 0 .. MaxSize : Truncate(h, n)
           \/ Close(h) \/ CloseStep(h) \/ Destroy(h)
    PROVE  /\ \A g \in Handles \ {h} :
                 /\ UNCHANGED << pc[g], real_path[g], write_buffer[g], frame[g], closing[g] >>
                 /\ Busy(g) => file'[tmp_path(real_path[g])] = file[tmp_path(real_path[g])]
           /\ ~ Rename(h) => \A p \in Paths : file'[Archive(p)] = file[Archive(p)]
           /\ DOMAIN file = Names
<1> USE DEF fileVars, handleVars, closeVars
<1>1. TypesOf /\ DOMAIN file = Names /\ TargetsInv /\ WritingInv
  BY TInvParts DEF DInv, FilesInv, WInv
<1>2. \A g \in Handles \ {h} :
         UNCHANGED << pc[g], real_path[g], write_buffer[g], frame[g], closing[g] >>
  <2>1. CASE \/ \E p \in Targets, s \in Settings : OpenFile(h, p, s)
             \/ \E n \in 0 .. MaxSize - 1 : Write(h, n, Block)
             \/ \E n \in 0 .. MaxSize : Truncate(h, n)
             \/ Close(h) \/ Destroy(h)
    BY <1>1, <2>1 DEF TypesOf, OpenFile, Write, Truncate, Close, Destroy
  <2>2. CASE CloseStep(h)
    BY <1>1, <2>2 DEF TypesOf, CloseStep, Compress, CompressFails, OpenTmp, OpenTmpFails,
       WritePart, WriteFails, TmpWritten, Rename, RenameFails, RemoveTmp, AttemptFails, Return
  <2> QED  BY <2>1, <2>2
<1>3. CASE OpenTmp(h) \/ WritePart(h) \/ Rename(h) \/ RemoveTmp(h)
  <2>1. Busy(h) /\ real_path[h] \in Paths
    BY <1>1, <1>3 DEF Busy, TargetsInv, OpenTmp, WritePart, Rename, RemoveTmp
  <2>2. \A n \in Names :
           n # tmp_path(real_path[h]) /\ ~ (Rename(h) /\ n = Archive(real_path[h])) =>
              file'[n] = file[n]
    BY <1>1, <1>3, <2>1, NamesDiffer
       DEF OpenTmp, WritePart, Rename, RemoveTmp, MoveName, Unlink, WritingInv
  <2>3. \A g \in Handles \ {h} : Busy(g) =>
           /\ tmp_path(real_path[g]) \in Names
           /\ tmp_path(real_path[g]) # tmp_path(real_path[h])
           /\ tmp_path(real_path[g]) # Archive(real_path[h])
    BY <1>1, <2>1, TmpIsOwn, NamesDiffer DEF TargetsInv
  <2>4. \A p \in Paths : Archive(p) \in Names /\ Archive(p) # tmp_path(real_path[h])
    BY <2>1, NamesDiffer
  <2> QED  BY <1>1, <1>2, <2>2, <2>3, <2>4
<1>4. CASE ~ (OpenTmp(h) \/ WritePart(h) \/ Rename(h) \/ RemoveTmp(h))
  <2>1. UNCHANGED file
    BY <1>4 DEF OpenFile, Write, Truncate, Close, Destroy, CloseStep, Compress, CompressFails,
       OpenTmpFails, WriteFails, TmpWritten, RenameFails, AttemptFails
  <2> QED  BY <1>1, <1>2, <2>1
<1> QED  BY <1>3, <1>4

\* The step's own handle still has its data.
LEMMA OwnData ==
    ASSUME DInv, ~TailCanBeLost, NEW h \in Handles,
           \/ \E p \in Targets, s \in Settings : OpenFile(h, p, s)
           \/ \E n \in 0 .. MaxSize - 1 : Write(h, n, Block)
           \/ \E n \in 0 .. MaxSize : Truncate(h, n)
           \/ Close(h) \/ CloseStep(h) \/ Destroy(h)
    PROVE  DataOf(h)'
<1> USE DEF fileVars, handleVars, closeVars
<1>1. TypesOf /\ HandleOf(h) /\ DataOf(h) /\ WritingInv
  BY TInvParts DEF DInv, WInv
<1>2. CASE \/ \E p \in Targets, s \in Settings : OpenFile(h, p, s)
           \/ \E n \in 0 .. MaxSize - 1 : Write(h, n, Block)
           \/ \E n \in 0 .. MaxSize : Truncate(h, n)
           \/ Destroy(h) \/ Rename(h) \/ RenameFails(h) \/ RemoveTmp(h)
  <2>1. pc'[h] \in {"none", "open", "closed", "remove"}
    BY <1>1, <1>2 DEF TypesOf, OpenFile, Write, Truncate, Destroy, Rename, RenameFails,
       RemoveTmp, Return, CanWrite
  <2> QED  BY <2>1 DEF DataOf
<1>3. CASE Close(h)
  <2>1. pc'[h] = "compress" /\ closing'[h] = write_buffer[h] /\ UNCHANGED write_buffer
    BY <1>1, <1>3 DEF TypesOf, Close
  <2> QED  BY <2>1 DEF DataOf
<1>4. CASE Compress(h)
  <2>1. pc[h] = "compress" /\ pc'[h] = "tmp" /\ UNCHANGED << closing, write_buffer >>
    BY <1>1, <1>4 DEF TypesOf, Compress
  <2>2. PICK f \in Outcomes(h) \ {Error} : frame' = [frame EXCEPT ![h] = f]
    BY <1>4 DEF Compress
  <2>3. f.data = write_buffer[h]
    BY <1>1, <2>1, CompressedIsFrame
  <2> QED  BY <1>1, <2>1, <2>2, <2>3 DEF DataOf, TypesOf
<1>5. CASE CompressFails(h) \/ OpenTmpFails(h) \/ WriteFails(h)
  <2>1. /\ pc[h] \in {"compress", "tmp", "writing"} /\ pc'[h] \in {"compress", "remove"}
        /\ UNCHANGED << closing, write_buffer >>
    BY <1>1, <1>5 DEF TypesOf, CompressFails, OpenTmpFails, WriteFails, AttemptFails
  <2> QED  BY <1>1, <2>1 DEF DataOf
<1>6. CASE OpenTmp(h) \/ WritePart(h)
  <2>1. /\ pc[h] \in {"tmp", "writing"} /\ pc'[h] = "writing"
        /\ UNCHANGED << closing, write_buffer, frame >>
    BY <1>1, <1>6 DEF TypesOf, OpenTmp, WritePart
  <2> QED  BY <1>1, <2>1 DEF DataOf
<1>7. CASE TmpWritten(h)
  <2> DEFINE n == tmp_path(real_path[h])
             x == << frame[h].data, frame[h].profile >>
  <2>1. /\ pc[h] = "writing" /\ parts[h] = 2 /\ pc'[h] = "rename"
        /\ UNCHANGED << closing, real_path, file >>
    BY <1>1, <1>7 DEF TypesOf, TmpWritten
  <2>2. file[n] = << {x}, {x} >>
    BY <1>1, <2>1 DEF WritingInv, HasParts, Part
  <2>3. frame[h].data = closing[h] /\ frame[h].profile \in Profiles
    BY <1>1, <2>1 DEF DataOf, HandleOf, Frames
  <2> QED  BY <2>1, <2>2, <2>3 DEF DataOf, IsFileOf
<1> QED  BY <1>2, <1>3, <1>4, <1>5, <1>6, <1>7 DEF CloseStep

\* What a rename puts at the archive's name.
LEMMA RenamedFile ==
    ASSUME DInv, NEW h \in Handles, Rename(h)
    PROVE  /\ real_path[h] \in Paths /\ closing[h] \in Buffers
           /\ \A p \in Paths : file'[Archive(p)] =
                 IF p = real_path[h] THEN file[tmp_path(p)] ELSE file[Archive(p)]
           /\ file[tmp_path(real_path[h])] # NoFile
           /\ \E q \in Profiles : IsFileOf(file[tmp_path(real_path[h])], << closing[h], q >>)
<1>1. /\ real_path[h] \in Paths /\ closing[h] \in Buffers /\ DOMAIN file = Names
      /\ DataOf(h) /\ pc[h] = "rename"
  BY TInvParts DEF DInv, HandleOf, InClose, Rename, FilesInv
<1>2. file[tmp_path(real_path[h])] # NoFile
  BY DEF Rename, MoveName
<1>3. \A p \in Paths : file'[Archive(p)] =
         IF p = real_path[h] THEN file[tmp_path(p)] ELSE file[Archive(p)]
  BY <1>1, NamesDiffer DEF Rename, MoveName
<1> QED  BY <1>1, <1>2, <1>3 DEF DataOf

\* Every step keeps the invariant.
LEMMA NextDInv ==
    ASSUME ~SharedPaths, ~TailCanBeLost
    PROVE  DInv /\ [Next]_vars => DInv'
<1> SUFFICES ASSUME DInv, [Next]_vars PROVE DInv'
  OBVIOUS
<1>a. WInv' /\ TInv' /\ DOMAIN file = Names
  BY NextWInv, NextTInv, TInvParts DEF DInv, FilesInv
<1>1. ASSUME NEW h \in Handles,
             \/ \E p \in Targets, s \in Settings : OpenFile(h, p, s)
             \/ \E n \in 0 .. MaxSize - 1 : Write(h, n, Block)
             \/ \E n \in 0 .. MaxSize : Truncate(h, n)
             \/ Close(h) \/ CloseStep(h) \/ Destroy(h)
      PROVE  DInv'
  <2>1. ASSUME NEW g \in Handles PROVE DataOf(g)'
    <3>1. CASE g = h
      BY <1>1, <3>1, OwnData
    <3>2. CASE g # h
      <4>1. DataOf(g)
        BY DEF DInv
      <4> QED  BY <1>1, <3>2, <4>1, OwnFiles, KeptData DEF Busy
    <3> QED  BY <3>1, <3>2
  <2>2. HeldInv'
    <3>1. CASE Rename(h)
      <4>1. PICK q \in Profiles :
               IsFileOf(file[tmp_path(real_path[h])], << closing[h], q >>)
        BY <3>1, RenamedFile
      <4>2. << closing[h], q >> \in Buffers \X Profiles
        BY <3>1, RenamedFile
      <4>3. ASSUME NEW p \in Paths, file'[Archive(p)] # NoFile
            PROVE  \E x \in Buffers \X Profiles : IsFileOf(file'[Archive(p)], x)
        <5>1. CASE p = real_path[h]
          BY <3>1, <4>1, <4>2, <5>1, RenamedFile
        <5>2. CASE p # real_path[h]
          BY <3>1, <4>3, <5>2, RenamedFile DEF DInv, HeldInv, FileExists
        <5> QED  BY <5>1, <5>2
      <4> QED  BY <4>3 DEF HeldInv, FileExists, IsFileOf
    <3>2. CASE ~ Rename(h)
      BY <1>1, <3>2, OwnFiles DEF DInv, HeldInv, FileExists, IsFileOf
    <3> QED  BY <3>1, <3>2
  <2> QED  BY <1>a, <2>1, <2>2 DEF DInv
<1>2. ASSUME NEW p \in Paths, TryRemoveFile(p) \/ \E q \in Paths : MoveFile(p, q)
      PROVE  DInv'
  <2>1. UNCHANGED << pc, real_path, write_buffer, frame, closing >>
    BY <1>2 DEF TryRemoveFile, MoveFile, handleVars
  <2>2. \A q \in Paths : file'[tmp_path(q)] = file[tmp_path(q)]
    BY <1>2, <1>a, NamesDiffer DEF TryRemoveFile, MoveFile, Unlink, MoveName
  <2>3. \A q \in Paths :
           \/ file'[Archive(q)] = NoFile
           \/ \E r \in Paths : file'[Archive(q)] = file[Archive(r)] /\ FileExists(r)
    BY <1>2, <1>a, NamesDiffer DEF TryRemoveFile, MoveFile, Unlink, MoveName, FileExists
  <2>4. HeldInv'
    BY <2>3 DEF DInv, HeldInv, FileExists, IsFileOf
  <2>5. ASSUME NEW g \in Handles PROVE DataOf(g)'
    <3>1. DataOf(g) /\ (pc[g] # "none" => real_path[g] \in Paths)
      BY TInvParts DEF DInv
    <3> QED  BY <2>1, <2>2, <3>1, KeptData
  <2> QED  BY <1>a, <2>4, <2>5 DEF DInv
<1>3. CASE Crash
  <2>1. UNCHANGED file /\ \A g \in Handles : pc'[g] = "none"
    BY <1>3 DEF Crash
  <2>2. HeldInv'
    BY <2>1 DEF DInv, HeldInv, FileExists, IsFileOf
  <2>3. \A g \in Handles : DataOf(g)'
    BY <2>1 DEF DataOf
  <2> QED  BY <1>a, <2>2, <2>3 DEF DInv
<1>4. CASE UNCHANGED vars
  <2>1. UNCHANGED << file, pc, real_path, write_buffer, frame, closing >>
    BY <1>4 DEF vars, fileVars, handleVars, closeVars
  <2>2. HeldInv'
    BY <2>1 DEF DInv, HeldInv, FileExists, IsFileOf
  <2>3. ASSUME NEW g \in Handles PROVE DataOf(g)'
    <3>1. DataOf(g)
      BY DEF DInv
    <3> QED  BY <2>1, <3>1, KeptData
  <2> QED  BY <1>a, <2>2, <2>3 DEF DInv
<1> QED  BY <1>1, <1>2, <1>3, <1>4 DEF Next

\* No handle is open at first, and the archive that may be there is whole.
LEMMA InitDInv == Init => DInv
<1> SUFFICES ASSUME Init PROVE DInv
  OBVIOUS
<1>1. PICK x : IsFileOf(OldArchive, x)
  BY DEF OldArchive, Part, IsFileOf
<1>2. x \in Buffers \X Profiles
  BY <1>1, OldArchiveHoldsParts DEF HoldsParts, IsFileOf
<1>3. HeldInv
  BY <1>1, <1>2, NamesDiffer DEF Init, HeldInv, FileExists
<1>4. \A h \in Handles : DataOf(h)
  BY DEF Init, DataOf
<1> QED  BY <1>3, <1>4, InitWInv, InitTInv DEF DInv

\* What a reader of a path gets is a buffer or nothing.
LEMMA StoredIs ==
    ASSUME HeldInv, NEW p \in Paths
    PROVE  /\ StoredAt(p) = Reads(file[Archive(p)])
           /\ FileExists(p) => StoredAt(p) \in Buffers
           /\ ~ FileExists(p) => StoredAt(p) = NoFile
<1>1. StoredAt(p) = Reads(file[Archive(p)])
  BY DEF StoredAt, Reads, FileExists
<1>2. ASSUME FileExists(p) PROVE StoredAt(p) \in Buffers
  <2>1. PICK x \in Buffers \X Profiles : IsFileOf(file[Archive(p)], x)
    BY <1>2 DEF HeldInv
  <2> QED  BY <1>1, <1>2, <2>1, ReadsIs DEF FileExists
<1> QED  BY <1>1, <1>2, ReadsIs DEF FileExists

\* The variables of ArchiveStore.
stored == [p \in Paths |-> StoredAt(p)]
asked == [h \in Handles |-> IF InClose(h) THEN << real_path[h], closing[h] >> ELSE NoFile]

\* What a reader gets after a step follows from the files alone.
LEMMA StoredAfter ==
    \A p \in Paths : StoredAt(p)' = Reads(file'[Archive(p)])
BY DEF StoredAt, Reads, FileExists, Whole

\* What a Close in progress has to store is never mistaken for nothing.
LEMMA AskedIs ==
    ASSUME TInv, NEW h \in Handles
    PROVE  /\ InClose(h) => asked[h] # NoFile /\ asked[h][1] = real_path[h]
                            /\ asked[h][2] = closing[h]
           /\ ~ InClose(h) => asked[h] = NoFile
<1>1. InClose(h) => << real_path[h], closing[h] >> \in Paths \X Buffers
  BY TInvParts DEF HandleOf, InClose
<1> QED  BY <1>1, NoFileAssumption DEF asked

\* A step of one handle: what it is asked to do, and that of no other.
LEMMA AskedAfter ==
    ASSUME DInv, NEW h \in Handles,
           \/ \E p \in Targets, s \in Settings : OpenFile(h, p, s)
           \/ \E n \in 0 .. MaxSize - 1 : Write(h, n, Block)
           \/ \E n \in 0 .. MaxSize : Truncate(h, n)
           \/ Close(h) \/ CloseStep(h) \/ Destroy(h)
    PROVE  asked' = [asked EXCEPT ![h] = IF InClose(h)' THEN << real_path'[h], closing'[h] >>
                                         ELSE NoFile]
<1>1. \A g \in Handles \ {h} : UNCHANGED << pc[g], real_path[g], closing[g] >>
  BY OwnFiles
<1> QED  BY <1>1 DEF asked, InClose

\* The steps of a handle that ArchiveStore does not see.
LEMMA InnerStep ==
    ASSUME DInv, NEW h \in Handles,
           \/ \E p \in Targets, s \in Settings : OpenFile(h, p, s)
           \/ \E n \in 0 .. MaxSize - 1 : Write(h, n, Block)
           \/ \E n \in 0 .. MaxSize : Truncate(h, n)
           \/ CloseStep(h) /\ ~ Rename(h) /\ ~ RemoveTmp(h)
    PROVE  UNCHANGED << stored, asked, result >>
<1> USE DEF fileVars, handleVars, closeVars
<1>1. TypesOf
  BY TInvParts DEF DInv
<1>2. UNCHANGED stored
  <2>1. \A p \in Paths : file'[Archive(p)] = file[Archive(p)]
    BY OwnFiles DEF CloseStep, OpenFile, Write, Truncate, Rename
  <2>2. \A p \in Paths : StoredAt(p)' = StoredAt(p)
    BY <2>1, StoredAfter, StoredIs DEF DInv
  <2> QED  BY <2>2 DEF stored
<1>3. UNCHANGED result /\ InClose(h)' = InClose(h)
      /\ (InClose(h) => UNCHANGED << real_path[h], closing[h] >>)
  <2>1. CASE \/ \E p \in Targets, s \in Settings : OpenFile(h, p, s)
             \/ \E n \in 0 .. MaxSize - 1 : Write(h, n, Block)
             \/ \E n \in 0 .. MaxSize : Truncate(h, n)
    BY <1>1, <2>1 DEF TypesOf, OpenFile, Write, Truncate, CanWrite, InClose
  <2>2. CASE CloseStep(h) /\ ~ Rename(h) /\ ~ RemoveTmp(h)
    BY <1>1, <2>2 DEF TypesOf, CloseStep, Compress, CompressFails, OpenTmp, OpenTmpFails,
       WritePart, WriteFails, TmpWritten, RenameFails, AttemptFails, InClose
  <2> QED  BY <2>1, <2>2
<1>4. UNCHANGED asked
  BY <1>3, AskedAfter DEF asked
<1> QED  BY <1>2, <1>3, <1>4

\* A Close that returns has stored the buffer it was called on.
LEMMA RenameRefines ==
    ASSUME DInv, NEW h \in Handles, Rename(h)
    PROVE  Store!Put(h)
<1>1. /\ InClose(h) /\ ~ InClose(h)' /\ real_path[h] \in Paths /\ CloseStep(h)
      /\ result' = [result EXCEPT ![h] = "ok"]
  BY TInvParts, RenamedFile DEF DInv, Rename, Return, InClose, TypesOf, CloseStep
<1>2. asked[h] # NoFile /\ asked[h][1] = real_path[h] /\ asked[h][2] = closing[h]
      /\ asked' = [asked EXCEPT ![h] = NoFile]
  BY <1>1, AskedIs, AskedAfter DEF DInv
<1>3. Reads(file[tmp_path(real_path[h])]) = closing[h]
  <2>1. PICK q \in Profiles : IsFileOf(file[tmp_path(real_path[h])], << closing[h], q >>)
    BY RenamedFile
  <2> QED  BY <2>1, RenamedFile, ReadsIs
<1>4. \A p \in Paths :
         StoredAt(p)' = IF p = real_path[h] THEN closing[h] ELSE StoredAt(p)
  BY <1>3, RenamedFile, StoredAfter, StoredIs DEF DInv
<1>5. stored' = [stored EXCEPT ![real_path[h]] = closing[h]]
  BY <1>4 DEF stored
<1> QED  BY <1>1, <1>2, <1>5 DEF Store!Put, stored, asked

\* A Close that throws has left what readers get as it was.
LEMMA RemoveTmpRefines ==
    ASSUME DInv, NEW h \in Handles, RemoveTmp(h)
    PROVE  Store!Fail(h)
<1>1. /\ InClose(h) /\ ~ InClose(h)' /\ CloseStep(h) /\ ~ Rename(h)
      /\ result' = [result EXCEPT ![h] = "error"]
  BY TInvParts DEF DInv, RemoveTmp, Return, InClose, TypesOf, CloseStep, Rename
<1>2. asked[h] # NoFile /\ asked' = [asked EXCEPT ![h] = NoFile]
  BY <1>1, AskedIs, AskedAfter DEF DInv
<1>3. UNCHANGED stored
  BY <1>1, OwnFiles, StoredAfter, StoredIs DEF DInv, stored
<1> QED  BY <1>1, <1>2, <1>3 DEF Store!Fail, stored, asked

\* The call of Close and the end of a handle.
LEMMA CallRefines ==
    ASSUME DInv, NEW h \in Handles, Close(h) \/ Destroy(h)
    PROVE  Store!Ask(h) \/ Store!Drop(h)
<1>1. TypesOf /\ HandleOf(h) /\ ~ InClose(h) /\ asked[h] = NoFile
  <2>1. pc[h] \in {"open", "closed"}
    BY DEF Close, Destroy
  <2> QED  BY <2>1, TInvParts, AskedIs DEF DInv, InClose
<1>2. UNCHANGED stored
  <2>1. UNCHANGED file
    BY DEF Close, Destroy, fileVars
  <2> QED  BY <2>1, StoredAfter, StoredIs DEF DInv, stored
<1>3. CASE Close(h)
  <2>1. /\ real_path[h] \in Paths /\ write_buffer[h] \in Buffers /\ result[h] = "none"
        /\ closing'[h] = write_buffer[h] /\ UNCHANGED << real_path, result >> /\ InClose(h)'
    BY <1>1, <1>3 DEF Close, HandleOf, TypesOf, InClose, handleVars
  <2>2. asked' = [asked EXCEPT ![h] = << real_path[h], write_buffer[h] >>]
    BY <1>3, <2>1, AskedAfter
  <2> QED  BY <1>1, <1>2, <2>1, <2>2 DEF Store!Ask, stored, asked
<1>4. CASE Destroy(h)
  <2>1. result' = [result EXCEPT ![h] = "none"] /\ ~ InClose(h)'
    BY <1>1, <1>4 DEF Destroy, TypesOf, InClose
  <2>2. asked' = [asked EXCEPT ![h] = NoFile]
    BY <1>4, <2>1, AskedAfter
  <2>3. UNCHANGED asked
    BY <1>1, <2>2 DEF asked
  <2> QED  BY <1>1, <1>2, <2>1, <2>3 DEF Store!Drop, stored, asked
<1> QED  BY <1>3, <1>4

\* Removing and moving an archive.
LEMMA HostRefines ==
    ASSUME DInv, NEW p \in Paths, TryRemoveFile(p) \/ \E q \in Paths : MoveFile(p, q)
    PROVE  Store!Remove(p) \/ \E q \in Paths : p # q /\ Store!Move(p, q)
<1>1. DOMAIN file = Names
  BY TInvParts DEF DInv, FilesInv
<1>2. UNCHANGED << asked, result >>
  BY DEF TryRemoveFile, MoveFile, asked, InClose, handleVars
<1>3. CASE TryRemoveFile(p)
  <2>1. \A r \in Paths :
           file'[Archive(r)] = IF r = p THEN NoFile ELSE file[Archive(r)]
    BY <1>1, <1>3, NamesDiffer DEF TryRemoveFile, Unlink
  <2>2. \A r \in Paths : StoredAt(r)' = IF r = p THEN NoFile ELSE StoredAt(r)
    BY <2>1, StoredAfter, StoredIs, ReadsIs DEF DInv
  <2>3. stored' = [stored EXCEPT ![p] = NoFile]
    BY <2>2 DEF stored
  <2> QED  BY <1>2, <2>3 DEF Store!Remove, stored, asked
<1>4. ASSUME NEW q \in Paths, MoveFile(p, q)
      PROVE  p # q /\ Store!Move(p, q)
  <2>1. p # q /\ FileExists(p)
    BY <1>4 DEF MoveFile, MoveName, FileExists
  <2>2. \A r \in Paths :
           file'[Archive(r)] = IF r = p THEN NoFile
                               ELSE IF r = q THEN file[Archive(p)] ELSE file[Archive(r)]
    BY <1>1, <1>4, <2>1, NamesDiffer DEF MoveFile, MoveName
  <2>3. \A r \in Paths :
           StoredAt(r)' = IF r = p THEN NoFile ELSE IF r = q THEN StoredAt(p) ELSE StoredAt(r)
    BY <2>2, StoredAfter, StoredIs, ReadsIs DEF DInv
  <2>4. stored' = [stored EXCEPT ![q] = stored[p], ![p] = NoFile]
    BY <2>1, <2>3 DEF stored
  <2>5. stored[p] # NoFile
    BY <2>1, StoredIs, NoFileAssumption DEF DInv, stored
  <2> QED  BY <1>2, <2>1, <2>4, <2>5 DEF Store!Move, stored, asked
<1> QED  BY <1>3, <1>4

\* A crash forgets the handles and leaves the archives alone.
LEMMA CrashRefines ==
    ASSUME DInv, Crash
    PROVE  Store!Crash
<1>1. UNCHANGED file /\ result' = [h \in Handles |-> "none"]
      /\ \A h \in Handles : ~ InClose(h)'
  BY DEF Crash, InClose
<1>2. UNCHANGED stored
  BY <1>1, StoredAfter, StoredIs DEF DInv, stored
<1>3. asked' = [h \in Handles |-> NoFile]
  BY <1>1 DEF asked
<1> QED  BY <1>1, <1>2, <1>3 DEF Store!Crash, stored, asked

\* The files behind openzl:// change only as whole files do: a Close that
\* returns has stored exactly the bytes in the buffer when it was called, one
\* that throws has changed nothing, and a crash lies before or after.
THEOREM WriteImplementsArchiveStore ==
    ASSUME ~SharedPaths, ~TailCanBeLost
    PROVE  Spec => ImplementsArchiveStore
<1>1. Init => Store!Init
  <2> SUFFICES ASSUME Init PROVE Store!Init
    OBVIOUS
  <2>1. HeldInv
    BY InitDInv DEF DInv
  <2>2. stored \in [Paths -> Buffers \cup {NoFile}]
    BY <2>1, StoredIs DEF stored
  <2>3. asked = [h \in Handles |-> NoFile] /\ result = [h \in Handles |-> "none"]
    BY DEF Init, asked, InClose
  <2> QED  BY <2>2, <2>3 DEF Store!Init, stored, asked
<1>2. DInv /\ [Next]_vars => DInv'
  BY NextDInv
<1>3. DInv /\ [Next]_vars => [Store!Next]_Store!vars
  <2> SUFFICES ASSUME DInv, [Next]_vars PROVE Store!Next \/ UNCHANGED Store!vars
    OBVIOUS
  <2>1. ASSUME NEW h \in Handles,
               \/ \E p \in Targets, s \in Settings : OpenFile(h, p, s)
               \/ \E n \in 0 .. MaxSize - 1 : Write(h, n, Block)
               \/ \E n \in 0 .. MaxSize : Truncate(h, n)
               \/ CloseStep(h) /\ ~ Rename(h) /\ ~ RemoveTmp(h)
        PROVE  UNCHANGED Store!vars
    BY <2>1, InnerStep DEF Store!vars, stored, asked
  <2>2. ASSUME NEW h \in Handles, Close(h) \/ Destroy(h) \/ Rename(h) \/ RemoveTmp(h)
        PROVE  Store!Next
    BY <2>2, CallRefines, RenameRefines, RemoveTmpRefines DEF Store!Next
  <2>3. ASSUME NEW p \in Paths, TryRemoveFile(p) \/ \E q \in Paths : MoveFile(p, q)
        PROVE  Store!Next
    BY <2>3, HostRefines DEF Store!Next
  <2>4. CASE Crash
    BY <2>4, CrashRefines DEF Store!Next
  <2>5. CASE UNCHANGED vars
    <3>1. UNCHANGED << file, pc, real_path, closing, result >>
      BY <2>5 DEF vars, fileVars, handleVars, closeVars
    <3>2. UNCHANGED stored
      BY <3>1, StoredAfter, StoredIs DEF DInv, stored
    <3>3. UNCHANGED asked
      BY <3>1 DEF asked, InClose
    <3> QED  BY <3>1, <3>2, <3>3 DEF Store!vars, stored, asked
  <2> QED  BY <2>1, <2>2, <2>3, <2>4, <2>5 DEF Next
<1> QED  BY InitDInv, <1>1, <1>2, <1>3, PTL DEF Spec, ImplementsArchiveStore, Store!Spec

=============================================================================
