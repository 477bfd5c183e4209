--------------------------- MODULE ChunkContainer ---------------------------
(***************************************************************************)
(* The on-disk layout of an OpenZL archive and the functions that read it: *)
(* ReadContainerIndex, ChunkCount, DecompressChunkToBuffer and             *)
(* DecompressToBuffer of src/src/openzl_bridge.cpp.                        *)
(*                                                                         *)
(* A multi-chunk archive is                                                *)
(*    magic | frame 0 | frame 1 | ... | (offset, length) per chunk         *)
(*          | chunk count | magic                                          *)
(* and a single-chunk archive is one OpenZL frame with nothing around it.  *)
(*                                                                         *)
(* A file keeps its size in bytes, the eight-byte little-endian words that *)
(* matter (by the byte offset where each starts) and the OpenZL frames it  *)
(* contains (by the byte offset where each starts).  The bytes of a frame  *)
(* are abstracted to its name and length.                                  *)
(***************************************************************************)
EXTENDS Integers, Sequences, Functions

CONSTANTS
    WordModulus,      \* 2^64: the number of values of a uint64_t
    kContainerMagic,  \* "OZLCHNK1" read as a word
    Payload,          \* the word read from bytes that belong to a frame
    Unreadable        \* what a read that throws returns

ASSUME ContainerAssumption ==
    /\ WordModulus \in Nat \ {0}
    /\ kContainerMagic \in 0 .. WordModulus - 1
    /\ Payload \in 0 .. WordModulus - 1
    /\ Payload # kContainerMagic
    /\ Unreadable \notin Int

kMagicLen  == 8
Word       == 0 .. WordModulus - 1

\* uint64_t arithmetic wraps.
Sub(a, b) == (a - b) % WordModulus
Mul(a, b) == (a * b) % WordModulus

-----------------------------------------------------------------------------
(* Writing: the stream operations the archive writer is built from.        *)

EmptyFile == [size |-> 0, words |-> << >>, frames |-> << >>]

PutWords(f, ws) ==
    LET new == {f.size + 8 * (k - 1) : k \in DOMAIN ws}
    IN  [size   |-> f.size + 8 * Len(ws),
         words  |-> [p \in new \cup DOMAIN f.words |->
                        IF p \in new THEN ws[(p - f.size) \div 8 + 1] ELSE f.words[p]],
         frames |-> f.frames]

PutFrame(f, id, len) ==
    [size   |-> f.size + len,
     words  |-> f.words,
     frames |-> [p \in {f.size} \cup DOMAIN f.frames |->
                    IF p = f.size THEN [id |-> id, length |-> len] ELSE f.frames[p]]]

\* Mutant of Prefix: a word is dropped that is not there.
PrefixLessWord(f, n) ==
    [size |-> n - 8, words |-> f.words, frames |-> f.frames]

\* What a reader finds when only the first n bytes have reached the file.
Prefix(f, n) ==
    [size   |-> n,
     words  |-> Restrict(f.words, {p \in DOMAIN f.words : p + 8 <= n}),
     frames |-> Restrict(f.frames,
                    {p \in DOMAIN f.frames : p + f.frames[p].length <= n})]

-----------------------------------------------------------------------------
(* ReadContainerIndex.                                                     *)

GetLE64(f, p) == IF p \in DOMAIN f.words THEN f.words[p] ELSE Payload

\* The checks whose failure makes the function return false: a plain frame.
IsContainer(f) ==
    /\ f.size >= kMagicLen + 16
    /\ GetLE64(f, 0) = kContainerMagic

HasTrailer(f) == GetLE64(f, Sub(f.size, 8)) = kContainerMagic

Count(f) == GetLE64(f, Sub(f.size, 16))

CountFits(f) ==
    /\ Count(f) # 0
    /\ Count(f) <= Sub(Sub(f.size, kMagicLen), 16) \div 16

IndexStart(f) == Sub(Sub(f.size, 16), Mul(Count(f), 16))

\* The read of the index does not run past the end of the file.
IndexReadable(f) == IndexStart(f) + Mul(Count(f), 16) <= f.size

ChunkRange(f, i) ==
    [offset |-> GetLE64(f, IndexStart(f) + 16 * (i - 1)),
     length |-> GetLE64(f, IndexStart(f) + 16 * (i - 1) + 8)]

\* Mutant of InRange: the end of the range is computed before it is compared.
InRangeBySum(f, r) ==
    /\ r.offset >= kMagicLen
    /\ (r.offset + r.length) % WordModulus <= IndexStart(f)

InRange(f, r) ==
    /\ r.offset >= kMagicLen
    /\ r.offset <= IndexStart(f)
    /\ r.length <= Sub(IndexStart(f), r.offset)

IsIntact(f) ==
    /\ HasTrailer(f)
    /\ CountFits(f)
    /\ IndexReadable(f)
    /\ \A i \in 1 .. Count(f) : InRange(f, ChunkRange(f, i))

\* "plain": returned false; "corrupt": threw; "index": returned true.
Verdict(f) ==
    IF ~ IsContainer(f) THEN "plain"
    ELSE IF IsIntact(f) THEN "index" ELSE "corrupt"

-----------------------------------------------------------------------------
(* Decompression.  decompressSerial accepts exactly the bytes of one frame *)
(* and throws on anything else.                                            *)

decompressSerial(f, offset, length) ==
    IF /\ offset \in DOMAIN f.frames
       /\ f.frames[offset].length = length
       /\ offset + length <= f.size
    THEN f.frames[offset].id
    ELSE Unreadable

DecompressChunkToBuffer(f, i) ==
    IF Verdict(f) = "index" /\ i \in 1 .. Count(f)
    THEN LET r == ChunkRange(f, i) IN decompressSerial(f, r.offset, r.length)
    ELSE Unreadable

DecompressToBuffer(f) ==
    IF Verdict(f) = "plain" THEN decompressSerial(f, 0, f.size) ELSE Unreadable

ChunkCount(f) == IF Verdict(f) = "index" THEN Count(f) ELSE 1

\* What read_openzl gets: Glob() expands a container to one path per chunk
\* and leaves a plain frame alone, and every path must open for the scan to
\* succeed.
Scan(f) ==
    LET chunks == IF Verdict(f) = "index"
                  THEN [i \in 1 .. ChunkCount(f) |-> DecompressChunkToBuffer(f, i)]
                  ELSE << DecompressToBuffer(f) >>
    IN  IF \E i \in DOMAIN chunks : chunks[i] = Unreadable
        THEN Unreadable
        ELSE chunks
=============================================================================
