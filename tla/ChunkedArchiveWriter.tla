------------------------ MODULE ChunkedArchiveWriter ------------------------
(***************************************************************************)
(* openzl_bridge::ChunkedArchiveWriter: builds an archive one compressed   *)
(* chunk at a time at one path, with every file operation free to fail.    *)
(*                                                                         *)
(* Frame i is the i-th one appended; frame 0 is the archive that may have  *)
(* been at the path before.  "stream" is what has been given to the        *)
(* std::ofstream, "disk" what the file holds: the stream buffer may have   *)
(* written any prefix of it, and a crash of the process leaves just that.  *)
(***************************************************************************)
EXTENDS ChunkContainer

CONSTANTS
    FrameLengths,  \* the sizes a compressed chunk may have
    MaxChunks,     \* bound: chunks in one archive
    NoFile         \* nothing exists at the path

ASSUME WriterAssumption ==
    /\ FrameLengths \subseteq Nat \ {0}
    /\ MaxChunks \in Nat \ {0}

\* The magic is larger than an archive: no size, offset or length reads as one.
\* (The longest frame is at most m bytes, and the older archives below have 59.)
ASSUME SizesAssumption ==
    /\ 60 <= kContainerMagic
    /\ \E m \in 0 .. kContainerMagic :
          /\ \A len \in FrameLengths : len <= m
          /\ kMagicLen + MaxChunks * (m + 16) + 16 < kContainerMagic

VARIABLES
    disk,         \* the file at path_, or NoFile
    stream,       \* everything written to out_ so far
    is_open,      \* out_.is_open()
    first_,       \* length of the chunk held in memory, 0 if none
    ranges_,      \* (offset, length) of the chunks in the stream
    pos_,
    num_chunks_,
    finished_,
    phase,        \* where the writer's owner is
    initial       \* history: the file at path_ before the writer

vars == << disk, stream, is_open, first_, ranges_, pos_, num_chunks_,
           finished_, phase, initial >>

\* A plain frame, or an archive of two chunks.
OldArchives ==
    { PutFrame(EmptyFile, 0, 5),
      PutWords(PutFrame(PutFrame(PutWords(EmptyFile, << kContainerMagic >>), -1, 1), -2, 2),
               << 8, 1, 9, 2, 2, kContainerMagic >>) }

Init ==
    /\ initial \in OldArchives \cup {NoFile}
    /\ disk = initial
    /\ stream = EmptyFile
    /\ is_open = FALSE
    /\ first_ = 0
    /\ ranges_ = << >>
    /\ pos_ = 0
    /\ num_chunks_ = 0
    /\ finished_ = FALSE
    /\ phase = "open"

\* The stream buffer writes some more of the stream, or has done so before an
\* error: the file never holds less than before.
Flush(s) ==
    LET written == IF is_open THEN disk.size ELSE 0
    IN  \E n \in written .. s.size : disk' = Prefix(s, n)

-----------------------------------------------------------------------------
(* Append.                                                                 *)

AppendFirst(len) ==
    /\ phase = "open" /\ num_chunks_ = 0
    /\ num_chunks_' = 1
    /\ first_' = len
    /\ UNCHANGED << disk, stream, is_open, ranges_, pos_, finished_, phase, initial >>

\* The stream, index and position once a further chunk has been written; the
\* second chunk puts the magic and the chunk held in memory before it.
Started(s) == IF num_chunks_ = 1
              THEN PutFrame(PutWords(s, << kContainerMagic >>), 1, first_)
              ELSE s

\* Mutant of StartedRanges: the first chunk is cleared before it is indexed.
StartedRangesAfterClear ==
    IF num_chunks_ = 1 THEN << [offset |-> kMagicLen, length |-> 0] >> ELSE ranges_

StartedRanges == IF num_chunks_ = 1
                 THEN << [offset |-> kMagicLen, length |-> first_] >>
                 ELSE ranges_

\* Mutant of StartedPos: the position does not count the magic.
StartedPosWithoutMagic == IF num_chunks_ = 1 THEN first_ ELSE pos_

StartedPos == IF num_chunks_ = 1 THEN kMagicLen + first_ ELSE pos_

WriteChunk(len) ==
    /\ phase = "open" /\ num_chunks_ \in 1 .. MaxChunks - 1
    /\ num_chunks_' = num_chunks_ + 1
    /\ is_open' = TRUE
    /\ stream' = PutFrame(Started(stream), num_chunks_ + 1, len)
    /\ ranges_' = Append(StartedRanges, [offset |-> StartedPos, length |-> len])
    /\ pos_' = StartedPos + len
    /\ first_' = 0
    /\ Flush(stream')
    /\ UNCHANGED << finished_, initial >>

AppendNext(len) == WriteChunk(len) /\ phase' = "open"

AppendWriteFails(len) == WriteChunk(len) /\ phase' = "threw"

AppendOpenFails ==
    /\ phase = "open" /\ num_chunks_ = 1 /\ MaxChunks > 1
    /\ num_chunks_' = 2
    /\ phase' = "threw"
    /\ UNCHANGED << disk, stream, is_open, first_, ranges_, pos_, finished_, initial >>

-----------------------------------------------------------------------------
(* Finish.                                                                 *)

FinishEmpty ==
    /\ phase = "open" /\ num_chunks_ = 0
    /\ phase' = "threw"
    /\ UNCHANGED << disk, stream, is_open, first_, ranges_, pos_, num_chunks_,
                    finished_, initial >>

\* WriteFile(path_, first_).  It checks that the file opens and that write()
\* succeeds; the stream is closed by its destructor, which reports nothing.
WriteFileOpenFails ==
    /\ phase = "open" /\ num_chunks_ = 1
    /\ phase' = "finishThrew"
    /\ UNCHANGED << disk, stream, is_open, first_, ranges_, pos_, num_chunks_,
                    finished_, initial >>

WriteFile ==
    /\ phase = "open" /\ num_chunks_ = 1
    /\ stream' = PutFrame(EmptyFile, 1, first_)
    /\ Flush(stream')
    /\ phase' = "writingFile"
    /\ UNCHANGED << is_open, first_, ranges_, pos_, num_chunks_, finished_, initial >>

WriteFileFails ==
    /\ phase = "writingFile"
    /\ phase' = "finishThrew"
    /\ UNCHANGED << disk, stream, is_open, first_, ranges_, pos_, num_chunks_,
                    finished_, initial >>

WriteFileClosed ==
    /\ phase = "writingFile"
    /\ \E n \in disk.size .. stream.size : disk' = Prefix(stream, n)
    /\ finished_' = TRUE
    /\ phase' = "done"
    /\ UNCHANGED << stream, is_open, first_, ranges_, pos_, num_chunks_, initial >>

\* Mutant of Trailer: the last chunk is missing from the index.
TrailerWithoutLast ==
    LET n == Len(ranges_) - 1
    IN  [k \in 1 .. 2 * n |-> LET r == ranges_[(k + 1) \div 2]
                              IN  IF k % 2 = 1 THEN r.offset ELSE r.length]
            \o << n, kContainerMagic >>

\* The trailer: the index, the chunk count and the magic again.
Trailer ==
    [k \in 1 .. 2 * Len(ranges_) |-> LET r == ranges_[(k + 1) \div 2]
                                     IN  IF k % 2 = 1 THEN r.offset ELSE r.length]
        \o << Len(ranges_), kContainerMagic >>

WriteTrailer ==
    /\ phase = "open" /\ num_chunks_ > 1
    /\ stream' = PutWords(stream, Trailer)
    /\ Flush(stream')
    /\ phase' = "writingTrailer"
    /\ UNCHANGED << is_open, first_, ranges_, pos_, num_chunks_, finished_, initial >>

\* out_.close() flushes what is left and closes the file even when that fails.
TrailerClosed ==
    /\ phase = "writingTrailer"
    /\ disk' = stream
    /\ is_open' = FALSE
    /\ finished_' = TRUE
    /\ phase' = "done"
    /\ UNCHANGED << stream, first_, ranges_, pos_, num_chunks_, initial >>

TrailerFails ==
    /\ phase = "writingTrailer"
    /\ Flush(stream)
    /\ is_open' = FALSE
    /\ phase' = "finishThrew"
    /\ UNCHANGED << stream, first_, ranges_, pos_, num_chunks_, finished_, initial >>

-----------------------------------------------------------------------------
(* ~ChunkedArchiveWriter: an unfinished writer runs Abort.  The owner drops *)
(* the writer when one of its calls threw, or when the query is cancelled. *)

\* Mutant of Destroy: Abort closes the file and leaves it.
DestroyKeepsFile ==
    /\ phase \in {"open", "threw", "finishThrew", "done"}
    /\ is_open' = FALSE
    /\ finished_' = TRUE
    /\ phase' = CASE phase = "done" -> "released"
                  [] phase = "finishThrew" -> "dropped"
                  [] OTHER -> "aborted"
    /\ UNCHANGED << disk, stream, first_, ranges_, pos_, num_chunks_, initial >>

Destroy ==
    /\ phase \in {"open", "threw", "finishThrew", "done"}
    /\ disk' = IF ~ finished_ /\ is_open THEN NoFile ELSE disk
    /\ is_open' = FALSE
    /\ finished_' = TRUE
    /\ phase' = CASE phase = "done" -> "released"
                  [] phase = "finishThrew" -> "dropped"
                  [] OTHER -> "aborted"
    /\ UNCHANGED << stream, first_, ranges_, pos_, num_chunks_, initial >>

Next ==
    \/ \E len \in FrameLengths : AppendFirst(len)
    \/ \E len \in FrameLengths : AppendNext(len)
    \/ \E len \in FrameLengths : AppendWriteFails(len)
    \/ AppendOpenFails
    \/ FinishEmpty
    \/ WriteFileOpenFails \/ WriteFile \/ WriteFileFails \/ WriteFileClosed
    \/ WriteTrailer \/ TrailerClosed \/ TrailerFails
    \/ Destroy

Spec == Init /\ [][Next]_vars

-----------------------------------------------------------------------------
(* Properties.                                                             *)

TypeOK ==
    /\ disk = NoFile \/ disk.size \in Nat
    /\ stream.size \in Nat
    /\ is_open \in BOOLEAN
    /\ first_ \in FrameLengths \cup {0}
    /\ ranges_ \in Seq([offset : Nat, length : FrameLengths])
    /\ pos_ \in Nat
    /\ num_chunks_ \in 0 .. MaxChunks
    /\ finished_ \in BOOLEAN
    /\ phase \in {"open", "threw", "writingFile", "writingTrailer", "finishThrew",
                  "done", "aborted", "dropped", "released"}

\* What a scan of the path returns right now.
Visible == IF disk = NoFile THEN Unreadable ELSE Scan(disk)

AllChunks == [i \in 1 .. num_chunks_ |-> i]

\* Whatever prefix of the stream has reached the disk, whichever call failed
\* and whenever the process dies, a reader of the path gets an error, the
\* archive that was there before the writer touched it, or every chunk
\* appended, in order: never some of the chunks.
NeverServesPartOfTheTable ==
    \/ Visible = Unreadable
    \/ disk = initial /\ Visible \in { << 0 >>, << -1, -2 >> }
    \/ Visible = AllChunks

\* A multi-chunk Finish that returns has put the whole stream on disk, and
\* the whole stream reads back as exactly the chunks appended: the offsets
\* Append accumulates, the trailer Finish writes and the index the reader
\* computes from the end of the file agree.
FinishedReadsBack ==
    phase \in {"done", "released"} =>
        /\ num_chunks_ > 1 => disk = stream
        /\ disk = stream => Visible = AllChunks

\* A writer dropped before its owner reached Finish leaves at the path what
\* was there or nothing, whichever Append failed.
AbortLeavesNoPartialFile ==
    phase = "aborted" => disk \in {initial, NoFile}

\* The README says a COPY that fails throws; WriteFile does not look at what
\* its close did.
FinishedIsReadable ==
    phase = "done" => Visible = AllChunks
=============================================================================
