----------------------------- MODULE ArchiveScan -----------------------------
(***************************************************************************)
(* A scan of one path by read_openzl while ChunkedArchiveWriter writes it: *)
(* Glob reads the index, and then each chunk is opened by its number, with *)
(* one read of the index and another of the frame                          *)
(* (src/src/openzl_file_system.cpp and src/src/openzl_bridge.cpp).         *)
(*                                                                         *)
(* The buffers that scans share are the subject of ArchiveCache; here each *)
(* open decompresses.                                                      *)
(***************************************************************************)
EXTENDS ChunkedArchiveWriter

VARIABLES
    scan,      \* "idle", "opening", "reading", "returned" or "threw"
    listed,    \* the chunks of Glob's paths, or {0} for the path itself
    opened,    \* the chunk whose frame is about to be read
    range,     \* where the index says it is
    got,       \* what each chunk read so far was
    replaced   \* history: an archive that Glob found has changed

scanVars == << scan, listed, opened, range, got, replaced >>

NoRange == [offset |-> 0, length |-> 0]

ScanInit ==
    /\ Init
    /\ scan = "idle"
    /\ listed = {} /\ opened = 0 /\ range = NoRange /\ got = << >>
    /\ replaced = FALSE

\* An error ends the scan, and what it has read is dropped.
Throw ==
    /\ scan' = "threw"
    /\ listed' = {} /\ opened' = 0 /\ range' = NoRange /\ got' = << >>
    /\ replaced' = FALSE

Found == IF disk = NoFile THEN "nothing" ELSE Verdict(disk)

\* Mutant of Globbed: the paths are numbered from one.
GlobbedFromOne == IF Found = "index" THEN 2 .. ChunkCount(disk) ELSE {0}

\* A path to nothing, like a plain frame, is opened as it is.
Globbed == IF Found = "index" THEN 1 .. ChunkCount(disk) ELSE {0}

Glob ==
    /\ scan = "idle"
    /\ \/ /\ Found # "corrupt"
          /\ listed' = Globbed
          /\ scan' = "opening"
          /\ UNCHANGED << opened, range, got, replaced >>
       \/ Found = "corrupt" /\ Throw

\* What the first read of an open has to find.
Indexed(i) ==
    IF i = 0 THEN Found = "plain" ELSE Found = "index" /\ i <= Count(disk)

ReadIndex(i) ==
    /\ scan = "opening" /\ i \in listed \ DOMAIN got
    /\ \/ /\ Indexed(i)
          /\ opened' = i
          /\ range' = IF i = 0 THEN NoRange ELSE ChunkRange(disk, i)
          /\ scan' = "reading"
          /\ UNCHANGED << listed, got, replaced >>
       \/ ~Indexed(i) /\ Throw

FrameRead ==
    IF disk = NoFile THEN Unreadable
    ELSE IF opened = 0 THEN decompressSerial(disk, 0, disk.size)
    ELSE decompressSerial(disk, range.offset, range.length)

ReadFrame ==
    /\ scan = "reading"
    /\ \/ /\ FrameRead # Unreadable
          /\ got' = [i \in {opened} \cup DOMAIN got |->
                        IF i = opened THEN FrameRead ELSE got[i]]
          /\ scan' = IF DOMAIN got' = listed THEN "returned" ELSE "opening"
          /\ opened' = 0 /\ range' = NoRange
          /\ UNCHANGED << listed, replaced >>
       \/ FrameRead = Unreadable /\ Throw

ScanNext ==
    \/ /\ Glob \/ ReadFrame \/ \E i \in 0 .. MaxChunks : ReadIndex(i)
       /\ UNCHANGED vars
    \/ /\ Next
       /\ replaced' = (\/ replaced
                       \/ /\ scan \in {"opening", "reading"} /\ 0 \notin listed
                          /\ disk' # disk)
       /\ UNCHANGED << scan, listed, opened, range, got >>

ScanSpec == ScanInit /\ [][ScanNext]_<< vars, scanVars >>

-----------------------------------------------------------------------------
\* A scan that returns has a whole archive, each chunk in its place, if the
\* archive it found at first was not replaced under it.  A file that did not
\* exist, is being written or gets another plain frame is no exception: such
\* a scan has the whole archive or throws.
ScanReturnsOneArchive ==
    scan = "returned" /\ ~replaced =>
        \/ got = [i \in {0} |-> 0] \/ got = << -1, -2 >>
        \/ got = [i \in {0} |-> 1] /\ num_chunks_ = 1
        \/ got = AllChunks /\ num_chunks_ > 1
=============================================================================
