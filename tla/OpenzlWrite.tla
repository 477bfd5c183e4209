----------------------------- MODULE OpenzlWrite -----------------------------
(***************************************************************************)
(* The write side of openzl:// (src/src/openzl_file_system.cpp): a handle  *)
(* opened for writing buffers the file in memory, and Close compresses it  *)
(* next to the destination and renames the result into place.              *)
(*                                                                         *)
(* A stream writes to the file it has opened, whatever becomes of the      *)
(* file's name, and two handles that close at one path write to one        *)
(* temporary file.  A file has two parts, the second written after the     *)
(* first: WriteFile can be overtaken, can fail and can be cut short by a   *)
(* crash between them.                                                     *)
(***************************************************************************)
EXTENDS GraphOptions, FiniteSets

CONSTANTS
    Handles,              \* OpenzlFileHandles
    Paths,                \* real paths of archives
    Targets,              \* those that are written; files are moved to others
    NoFile,               \* no such file
    Unlinked,             \* a file that has lost its name
    Block,                \* a block of canonical parquet
    Settings,             \* the openzl_* settings a handle may be opened under
    MaxSize,              \* bound: blocks in a file
    kSmallFallbackBytes,  \* what Close may store with the generic graph
    max_compress_bytes,   \* the openzl_max_compress_bytes setting
    SharedPaths,          \* TRUE: two handles may write one path at a time
    TailCanBeLost         \* TRUE: ~ofstream may fail to write what it buffers

ASSUME WriteAssumption ==
    /\ MaxSize \in Nat \ {0} /\ kSmallFallbackBytes \in Nat
    /\ max_compress_bytes \in Nat
    /\ SharedPaths \in BOOLEAN /\ TailCanBeLost \in BOOLEAN
    /\ NoFile # Unlinked /\ Targets \subseteq Paths
    /\ NULL \notin Seq({Block, Hole})

ASSUME SettingsAssumption == \A s \in Settings : SettingTyped(s)

VARIABLES
    file,          \* the parts of the file of each name
    pc,            \* where a handle's user is
    real_path, write_settings, write_buffer,  \* OpenzlFileHandle
    attempt,       \* the first compression in Close or the generic one
    frame,         \* what the current attempt has compressed
    out,           \* where the file is that WriteFile's stream has open
    parts,         \* how many parts of it the stream has written
    result,        \* how the last Close ended
    closing,       \* history: the buffer that Close was called on
    leftover       \* history: paths whose temporary file a crash left

fileVars   == << file, leftover >>
handleVars == << real_path, write_settings, write_buffer >>
closeVars  == << attempt, frame, out, parts, result, closing >>
vars == << fileVars, pc, handleVars, closeVars >>

Archive(p) == << p, "" >>

\* Mutant of tmp_path: Close compresses into the destination itself.
tmp_pathInPlace(p) == << p, "" >>

tmp_path(p) == << p, ".openzl_tmp" >>

Names == { Archive(p) : p \in Paths } \cup { tmp_path(p) : p \in Paths }

ASSUME NamesAssumption == NoFile \notin Names /\ Unlinked \notin Names

Buffers == UNION { [1 .. n -> {Block, Hole}] : n \in 0 .. MaxSize }

ASSUME NoFileAssumption == NoFile \notin Buffers /\ NoFile \notin Paths \X Buffers

\* A part of a file that holds a part of the frame f, and one not written.
Part(f) == { << f.data, f.profile >> }
Blank == {}

Empty == << Blank, Blank >>

\* The archive that may be there before, written under the default settings.
OldArchive ==
    LET g == OpenzlDefaultGraphOptions(
                [format_version |-> NULL, profile |-> NULL,
                 permissive |-> NULL, parquet_chunk_bytes |-> NULL])
    IN  << Part(Frame(<< Block >>, g)), Part(Frame(<< Block >>, g)) >>

IsOpen(h) == pc[h] # "none"
Busy(h) == pc[h] \notin {"none", "closed"}
InClose(h) == pc[h] \notin {"none", "open", "closed"}

Init ==
    /\ \E there \in { S \in SUBSET Paths : Cardinality(S) <= 1 } :
          file = [n \in Names |->
                     IF \E p \in there : n = Archive(p) THEN OldArchive
                     ELSE NoFile]
    /\ leftover = {}
    /\ pc = [h \in Handles |-> "none"]
    /\ real_path = [h \in Handles |-> NULL]
    /\ write_settings = [h \in Handles |-> NULL]
    /\ write_buffer = [h \in Handles |-> NULL]
    /\ attempt = [h \in Handles |-> "first"]
    /\ frame = [h \in Handles |-> NULL]
    /\ out = [h \in Handles |-> NoFile]
    /\ parts = [h \in Handles |-> 0]
    /\ result = [h \in Handles |-> "none"]
    /\ closing = [h \in Handles |-> NULL]

-----------------------------------------------------------------------------
(* The file system.                                                        *)

FileExists(p) == file[Archive(p)] # NoFile

\* The name is free afterwards, and a stream on its file goes on without one.
Unlink(n) ==
    /\ file' = [file EXCEPT ![n] = NoFile]
    /\ out' = [h \in Handles |-> IF out[h] = n THEN Unlinked ELSE out[h]]

\* rename(2): the target loses its old file and the streams follow the file.
MoveName(from, to) ==
    /\ file[from] # NoFile
    /\ file' = [file EXCEPT ![to] = file[from], ![from] = NoFile]
    /\ out' = [h \in Handles |-> CASE out[h] = from -> to
                                   [] out[h] = to -> Unlinked
                                   [] OTHER -> out[h]]

\* The path of one chunk names no file to remove: only whole archives are.
TryRemoveFile(p) ==
    /\ FileExists(p)
    /\ Unlink(Archive(p))
    /\ UNCHANGED << leftover, pc, handleVars, attempt, frame, parts, result,
                    closing >>

MoveFile(p, q) ==
    /\ p # q
    /\ MoveName(Archive(p), Archive(q))
    /\ UNCHANGED << leftover, pc, handleVars, attempt, frame, parts, result,
                    closing >>

-----------------------------------------------------------------------------
(* Opening, writing and dropping a handle.                                 *)

\* Paths of single chunks, appending and read-write modes are refused.  The
\* settings are read here and validated only when the handle is closed.
OpenFile(h, p, s) ==
    /\ pc[h] = "none"
    /\ SharedPaths \/ \A g \in Handles : Busy(g) => real_path[g] # p
    /\ pc' = [pc EXCEPT ![h] = "open"]
    /\ real_path' = [real_path EXCEPT ![h] = p]
    /\ write_settings' =
          [write_settings EXCEPT ![h] = OpenzlDefaultGraphOptions(s)]
    /\ write_buffer' = [write_buffer EXCEPT ![h] = << >>]
    /\ UNCHANGED << fileVars, closeVars >>

Resize(b, n) ==
    [i \in 1 .. n |-> IF i <= Len(b) THEN b[i] ELSE Hole]

CanWrite(h) == pc[h] \in {"open", "closed"} /\ write_buffer[h] # NULL

\* At a location, past the end too.  A write at the handle's position is one
\* of these: Seek may have set the position to anything.
Write(h, location, b) ==
    /\ CanWrite(h) /\ location < MaxSize
    /\ LET size == IF location >= Len(write_buffer[h]) THEN location + 1
                   ELSE Len(write_buffer[h])
       IN  write_buffer' =
              [write_buffer EXCEPT
                  ![h] = [Resize(@, size) EXCEPT ![location + 1] = b]]
    /\ UNCHANGED << fileVars, pc, real_path, write_settings, closeVars >>

Truncate(h, new_size) ==
    /\ CanWrite(h)
    /\ write_buffer' = [write_buffer EXCEPT ![h] = Resize(@, new_size)]
    /\ UNCHANGED << fileVars, pc, real_path, write_settings, closeVars >>

\* A handle may be destroyed without having been closed: nothing is written.
Destroy(h) ==
    /\ pc[h] \in {"open", "closed"}
    /\ pc' = [pc EXCEPT ![h] = "none"]
    /\ real_path' = [real_path EXCEPT ![h] = NULL]
    /\ write_settings' = [write_settings EXCEPT ![h] = NULL]
    /\ write_buffer' = [write_buffer EXCEPT ![h] = NULL]
    /\ result' = [result EXCEPT ![h] = "none"]
    /\ UNCHANGED << fileVars, attempt, frame, out, parts, closing >>

-----------------------------------------------------------------------------
(* Close.                                                                  *)

\* A second Close returns at once, whatever became of the first.
Close(h) ==
    /\ pc[h] = "open"
    /\ pc' = [pc EXCEPT ![h] = "compress"]
    /\ attempt' = [attempt EXCEPT ![h] = "first"]
    /\ closing' = [closing EXCEPT ![h] = write_buffer[h]]
    /\ UNCHANGED << fileVars, handleVars, frame, out, parts, result >>

Graph(h) ==
    IF attempt[h] = "first" THEN write_settings[h]
    ELSE [write_settings[h] EXCEPT !.profile = "serial",
                                   !.parquet_chunk_bytes = 0]

\* Mutant of MayFallBack: a file of any size is stored with the generic graph.
MayFallBackAnySize(h) ==
    attempt[h] = "first" /\ write_settings[h].profile # "serial"

MayFallBack(h) ==
    /\ attempt[h] = "first"
    /\ write_settings[h].profile # "serial"
    /\ Len(write_buffer[h]) <= kSmallFallbackBytes

\* Mutant of AttemptFails: the stream of the failed WriteFile stays open.
AttemptFailsKeepsStream(h) ==
    /\ IF MayFallBack(h)
       THEN /\ pc' = [pc EXCEPT ![h] = "compress"]
            /\ attempt' = [attempt EXCEPT ![h] = "generic"]
       ELSE /\ pc' = [pc EXCEPT ![h] = "remove"]
            /\ UNCHANGED attempt
    /\ frame' = [frame EXCEPT ![h] = NULL]
    /\ UNCHANGED << fileVars, handleVars, out, parts, result, closing >>

\* CompressParquetBytes has thrown: try the generic graph or give up.
AttemptFails(h) ==
    /\ IF MayFallBack(h)
       THEN /\ pc' = [pc EXCEPT ![h] = "compress"]
            /\ attempt' = [attempt EXCEPT ![h] = "generic"]
       ELSE /\ pc' = [pc EXCEPT ![h] = "remove"]
            /\ UNCHANGED attempt
    /\ frame' = [frame EXCEPT ![h] = NULL]
    /\ out' = [out EXCEPT ![h] = NoFile]
    /\ parts' = [parts EXCEPT ![h] = 0]
    /\ UNCHANGED << fileVars, handleVars, result, closing >>

Outcomes(h) ==
    CompressBytesImpl(write_buffer[h], max_compress_bytes, Graph(h), << >>)

Compress(h) ==
    /\ pc[h] = "compress"
    /\ \E f \in Outcomes(h) \ {Error} : frame' = [frame EXCEPT ![h] = f]
    /\ pc' = [pc EXCEPT ![h] = "tmp"]
    /\ UNCHANGED << fileVars, handleVars, attempt, out, parts, result,
                    closing >>

CompressFails(h) ==
    /\ pc[h] = "compress"
    /\ Error \in Outcomes(h)
    /\ AttemptFails(h)

\* std::ios::trunc: the file of that name is emptied, whoever writes to it.
OpenTmp(h) ==
    /\ pc[h] = "tmp"
    /\ file' = [file EXCEPT ![tmp_path(real_path[h])] = Empty]
    /\ out' = [out EXCEPT ![h] = tmp_path(real_path[h])]
    /\ leftover' = leftover \ {real_path[h]}
    /\ pc' = [pc EXCEPT ![h] = "writing"]
    /\ UNCHANGED << handleVars, attempt, frame, parts, result, closing >>

OpenTmpFails(h) ==
    /\ pc[h] = "tmp"
    /\ AttemptFails(h)

WritePart(h) ==
    /\ pc[h] = "writing" /\ parts[h] < 2
    /\ parts' = [parts EXCEPT ![h] = @ + 1]
    /\ file' = IF out[h] = Unlinked THEN file
               ELSE [file EXCEPT ![out[h]][parts[h] + 1] = Part(frame[h])]
    /\ UNCHANGED << leftover, pc, handleVars, attempt, frame, out,
                    result, closing >>

WriteFails(h) ==
    /\ pc[h] = "writing" /\ parts[h] < 2
    /\ AttemptFails(h)

\* WriteFile checks the stream before its destructor writes the rest.
TmpWritten(h) ==
    /\ pc[h] = "writing"
    /\ parts[h] = 2 \/ TailCanBeLost
    /\ pc' = [pc EXCEPT ![h] = "rename"]
    /\ write_buffer' = [write_buffer EXCEPT ![h] = NULL]
    /\ frame' = [frame EXCEPT ![h] = NULL]
    /\ out' = [out EXCEPT ![h] = NoFile]
    /\ parts' = [parts EXCEPT ![h] = 0]
    /\ UNCHANGED << fileVars, real_path, write_settings,
                    attempt, result, closing >>

Return(h, r) ==
    /\ pc' = [pc EXCEPT ![h] = "closed"]
    /\ result' = [result EXCEPT ![h] = r]
    /\ closing' = [closing EXCEPT ![h] = NULL]
    /\ attempt' = [attempt EXCEPT ![h] = "first"]

Rename(h) ==
    /\ pc[h] = "rename"
    /\ MoveName(tmp_path(real_path[h]), Archive(real_path[h]))
    /\ leftover' = leftover \ {real_path[h]}
    /\ Return(h, "ok")
    /\ UNCHANGED << handleVars, frame, parts >>

\* Mutant of RenameFails: Close does not look at what rename returns.
RenameFailsUnnoticed(h) ==
    /\ pc[h] = "rename"
    /\ Return(h, "ok")
    /\ UNCHANGED << fileVars, handleVars, frame, out, parts >>

RenameFails(h) ==
    /\ pc[h] = "rename"
    /\ pc' = [pc EXCEPT ![h] = "remove"]
    /\ UNCHANGED << fileVars, handleVars, closeVars >>

\* Mutant of RemoveTmp: the error is reported and nothing removed.
RemoveTmpForgotten(h) ==
    /\ pc[h] = "remove"
    /\ Return(h, "error")
    /\ UNCHANGED << fileVars, handleVars, frame, out, parts >>

\* std::remove; there may be nothing to remove.
RemoveTmp(h) ==
    /\ pc[h] = "remove"
    /\ Unlink(tmp_path(real_path[h]))
    /\ leftover' = leftover \ {real_path[h]}
    /\ Return(h, "error")
    /\ UNCHANGED << handleVars, frame, parts >>

CloseStep(h) ==
    \/ Compress(h) \/ CompressFails(h)
    \/ OpenTmp(h) \/ OpenTmpFails(h)
    \/ WritePart(h) \/ WriteFails(h) \/ TmpWritten(h)
    \/ Rename(h) \/ RenameFails(h) \/ RemoveTmp(h)

-----------------------------------------------------------------------------
\* The process dies and another one takes over: only the files are left.
Crash ==
    /\ \E h \in Handles : IsOpen(h)
    /\ pc' = [h \in Handles |-> "none"]
    /\ real_path' = [h \in Handles |-> NULL]
    /\ write_settings' = [h \in Handles |-> NULL]
    /\ write_buffer' = [h \in Handles |-> NULL]
    /\ attempt' = [h \in Handles |-> "first"]
    /\ frame' = [h \in Handles |-> NULL]
    /\ out' = [h \in Handles |-> NoFile]
    /\ parts' = [h \in Handles |-> 0]
    /\ result' = [h \in Handles |-> "none"]
    /\ closing' = [h \in Handles |-> NULL]
    /\ leftover' = { p \in Paths : file[tmp_path(p)] # NoFile }
    /\ UNCHANGED file

Next ==
    \/ \E h \in Handles :
          \/ \E p \in Targets, s \in Settings : OpenFile(h, p, s)
          \/ \E n \in 0 .. MaxSize - 1 : Write(h, n, Block)
          \/ \E n \in 0 .. MaxSize : Truncate(h, n)
          \/ Close(h) \/ CloseStep(h) \/ Destroy(h)
    \/ \E p \in Paths : TryRemoveFile(p)
    \/ \E p, q \in Paths : MoveFile(p, q)
    \/ Crash

Spec == Init /\ [][Next]_vars

-----------------------------------------------------------------------------
(* Properties.                                                             *)

Frames == [data : Buffers, profile : Profiles, version : Versions,
           chunk : 0 .. IntMax]

\* The state of every handle is one OpenzlFileHandle and Close can be in, and
\* every file holds parts of frames.
TypeOK ==
    /\ \A n \in Names : file[n] # NoFile =>
          \A k \in 1 .. 2 : file[n][k] \subseteq Buffers \X Profiles
    /\ leftover \subseteq Paths
    /\ pc \in [Handles -> {"none", "open", "compress", "tmp", "writing",
                           "rename", "remove", "closed"}]
    /\ real_path \in [Handles -> Paths \cup {NULL}]
    /\ write_settings \in [Handles -> GraphOptionsType \cup {NULL}]
    /\ write_buffer \in [Handles -> Buffers \cup {NULL}]
    /\ attempt \in [Handles -> {"first", "generic"}]
    /\ frame \in [Handles -> Frames \cup {NULL}]
    /\ out \in [Handles -> Names \cup {Unlinked, NoFile}]
    /\ parts \in [Handles -> 0 .. 2]
    /\ result \in [Handles -> {"none", "ok", "error"}]
    /\ closing \in [Handles -> Buffers \cup {NULL}]
    /\ \A h \in Handles :
          pc[h] = "writing" <=> out[h] # NoFile

Whole(f) == f[1] # Blank /\ f[1] = f[2]

\* "so a reader never sees a half-written archive" (openzl_file_system.cpp,
\* Close): a path that FileExists reports holds one complete frame, whatever
\* has failed, crashed, been moved or been written over before.
ExistingArchivesAreWhole ==
    \A p \in Paths : FileExists(p) => Whole(file[Archive(p)])

\* Close: the generic graph stores small files only, unless the user chose it.
\* A large file that is not canonical is never stored at the generic graph's
\* ratio.
OnlySmallFilesFallBack ==
    \A h \in Handles :
        frame[h] # NULL /\ frame[h].profile = "serial"
        /\ Len(frame[h].data) > kSmallFallbackBytes
            => write_settings[h].profile = "serial"

\* GraphOptions: no settings, and no retry with changed ones, lead to a frame
\* in a version that this build cannot write, or to a chunk size that the
\* version cannot express or an int cannot hold.
FramesAreWritable ==
    \A h \in Handles :
        frame[h] # NULL =>
            /\ frame[h].version \in Versions
            /\ frame[h].chunk \in 0 .. IntMax
            /\ frame[h].chunk > 0 => frame[h].version >= ZL_CHUNK_VERSION_MIN

\* Close: a temporary file belongs to a Close in progress, or a crash left it;
\* no failure and no retry leaves one behind.
TmpOnlyWhileClosing ==
    \A p \in Paths :
        file[tmp_path(p)] # NoFile =>
            p \in leftover \/ \E h \in Handles : InClose(h) /\ real_path[h] = p

StoredAt(p) ==
    IF ~FileExists(p) THEN NoFile
    ELSE IF Whole(file[Archive(p)])
         THEN (CHOOSE part \in file[Archive(p)][1] : TRUE)[1]
    ELSE Error

Store == INSTANCE ArchiveStore WITH
    Datas <- Buffers,
    Nothing <- NoFile,
    stored <- [p \in Paths |-> StoredAt(p)],
    asked <- [h \in Handles |->
                 IF InClose(h) THEN << real_path[h], closing[h] >>
                 ELSE NoFile]

\* The files behind openzl:// change only as whole files do: a Close that
\* returns has stored exactly the bytes in the buffer when it was called, one
\* that throws has changed nothing, and a crash lies before or after.
ImplementsArchiveStore == Store!Spec
=============================================================================
