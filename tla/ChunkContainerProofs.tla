------------------------ MODULE ChunkContainerProofs ------------------------
(***************************************************************************)
(* What ReadContainerIndex accepts, for every file and every word size.    *)
(*                                                                         *)
(* The words of a damaged file are arbitrary, so the argument is about the *)
(* checks alone: each one makes the next arithmetic operation exact, and   *)
(* exact arithmetic gives the bounds.                                      *)
(***************************************************************************)
EXTENDS ArchiveDamage, ArchiveScan, SequenceTheorems, TLAPS

\* A subtraction of uint64_t values whose operands are in order is exact.
LEMMA SubExact ==
    ASSUME NEW a \in Word, NEW b \in Word, b <= a
    PROVE  Sub(a, b) = a - b /\ Sub(a, b) \in Word
BY ContainerAssumption DEF Sub, Word

\* A multiplication whose product fits a uint64_t is exact.
LEMMA MulExact ==
    ASSUME NEW a \in Nat, NEW b \in Nat, a * b < WordModulus
    PROVE  Mul(a, b) = a * b
BY ContainerAssumption DEF Mul, Word

\* GetLE64 of openzl_bridge.cpp yields a uint64_t wherever it reads.
LEMMA GetLE64Type ==
    ASSUME NEW f, f.words \in [DOMAIN f.words -> Word], NEW p
    PROVE  GetLE64(f, p) \in Word
BY ContainerAssumption DEF GetLE64, Word

\* The guards on the size and on the chunk count make the computation of
\* index_start exact: the index and the trailer end where the file ends, and
\* the index starts behind the magic.
LEMMA IndexStartExact ==
    ASSUME NEW f, f.size \in Word, f.words \in [DOMAIN f.words -> Word],
           IsContainer(f), CountFits(f)
    PROVE  /\ Count(f) \in Nat \ {0}
           /\ IndexStart(f) = f.size - 16 - 16 * Count(f)
           /\ IndexStart(f) \in Word
           /\ kMagicLen <= IndexStart(f)
<1> DEFINE n == Count(f)
<1>1. f.size \in Nat /\ f.size >= 24 /\ WordModulus \in Nat /\ f.size < WordModulus
  BY ContainerAssumption DEF IsContainer, kMagicLen, Word
<1>2. n \in Word /\ n # 0
  BY GetLE64Type DEF Count, CountFits
<1>3. n <= (f.size - 24) \div 16
  <2>1. 8 \in Word /\ 16 \in Word /\ 8 <= f.size
    BY <1>1 DEF Word
  <2>2. Sub(f.size, 8) = f.size - 8 /\ Sub(f.size, 8) \in Word
    BY <2>1, SubExact
  <2>3. 16 <= Sub(f.size, 8)
    BY <1>1, <2>2
  <2>4. Sub(Sub(f.size, 8), 16) = Sub(f.size, 8) - 16
    BY <2>1, <2>2, <2>3, SubExact
  <2>5. Sub(Sub(f.size, 8), 16) = f.size - 24
    BY <1>1, <2>2, <2>4
  <2> QED  BY <2>5 DEF CountFits, kMagicLen
<1>4. n \in Nat /\ 16 * n <= f.size - 24
  BY <1>1, <1>2, <1>3 DEF Word
<1>5. Mul(n, 16) = 16 * n
  BY <1>1, <1>4, MulExact
<1>6. Sub(f.size, 16) = f.size - 16 /\ Sub(f.size, 16) \in Word
  <2>1. 16 \in Word /\ 16 <= f.size
    BY <1>1 DEF Word
  <2> QED  BY <2>1, SubExact
<1>7. IndexStart(f) = f.size - 16 - 16 * n /\ IndexStart(f) \in Word
  <2>1. 16 * n \in Word /\ 16 * n <= Sub(f.size, 16)
    BY <1>1, <1>4, <1>6 DEF Word
  <2> QED  BY <1>5, <1>6, <2>1, SubExact DEF IndexStart
<1> QED  BY <1>1, <1>2, <1>4, <1>7 DEF kMagicLen

\* Every chunk range that passes the check lies between the magic and the
\* index, although the check itself never adds offset and length.
LEMMA AcceptedRangeInside ==
    ASSUME NEW f, f.size \in Word, f.words \in [DOMAIN f.words -> Word],
           Verdict(f) = "index", NEW i \in 1 .. Count(f)
    PROVE  LET r == ChunkRange(f, i)
           IN  /\ kMagicLen <= r.offset
               /\ r.offset + r.length <= IndexStart(f)
<1> DEFINE r == ChunkRange(f, i)
<1>1. IsContainer(f) /\ IsIntact(f)
  BY DEF Verdict
<1>2. IndexStart(f) \in Word
  BY <1>1, IndexStartExact DEF IsIntact
<1>3. r.offset \in Word /\ r.length \in Word
  BY GetLE64Type DEF ChunkRange
<1>4. InRange(f, r)
  BY <1>1 DEF IsIntact
<1>5. Sub(IndexStart(f), r.offset) = IndexStart(f) - r.offset
  BY <1>2, <1>3, <1>4, SubExact DEF InRange
<1>6. IndexStart(f) \in Nat /\ r.offset \in Nat /\ r.length \in Nat
  BY <1>2, <1>3, ContainerAssumption DEF Word
<1> QED  BY <1>4, <1>5, <1>6 DEF InRange, kMagicLen

-----------------------------------------------------------------------------

\* A file whose words and size are uint64_t values satisfies the property.
LEMMA TypedFileInBounds == DamageTypeOK => IndexInBounds
<1> SUFFICES ASSUME DamageTypeOK, Verdict(file) = "index"
             PROVE  /\ IndexStart(file) + 16 * Count(file) + 16 = file.size
                    /\ \A i \in 1 .. Count(file) :
                          LET r == ChunkRange(file, i)
                          IN  /\ kMagicLen <= r.offset
                              /\ r.offset + r.length <= IndexStart(file)
  BY DEF IndexInBounds
<1>1. IsContainer(file) /\ CountFits(file)
  BY DEF Verdict, IsIntact
<1>2. file.size \in Nat /\ Count(file) \in Nat
      /\ IndexStart(file) = file.size - 16 - 16 * Count(file)
  BY <1>1, IndexStartExact, ContainerAssumption DEF DamageTypeOK, Word
<1>3. IndexStart(file) + 16 * Count(file) + 16 = file.size
  BY <1>2
<1> QED  BY <1>3, AcceptedRangeInside DEF DamageTypeOK

\* Damage never makes a file that is not a sequence of words.
THEOREM DamageKeepsWords == DamageSpec => []DamageTypeOK
<1>1. DamageInit => DamageTypeOK
  BY DamageAssumption DEF DamageInit, DamageTypeOK
<1>2. DamageTypeOK /\ [DamageNext]_damageVars => DamageTypeOK'
  <2> SUFFICES ASSUME DamageTypeOK, [DamageNext]_damageVars PROVE DamageTypeOK'
    OBVIOUS
  <2> USE DEF DamageTypeOK
  <2>1. ASSUME NEW p \in DOMAIN file.words, NEW w \in Word, Overwrite(p, w)
        PROVE  DamageTypeOK'
    BY <2>1, DamageAssumption DEF Overwrite
  <2>2. ASSUME NEW n \in Word, Truncate(n)
        PROVE  DamageTypeOK'
    BY <2>2, DamageAssumption DEF Truncate, Prefix, Restrict
  <2>3. CASE UNCHANGED damageVars
    BY <2>3 DEF damageVars
  <2> QED  BY <2>1, <2>2, <2>3 DEF DamageNext
<1> QED  BY <1>1, <1>2, PTL DEF DamageSpec

\* Whatever happens to an archive at rest, ReadContainerIndex rejects it or
\* returns ranges inside the file, for every word size and every archive.
THEOREM DamagedIndexInBounds == DamageSpec => []IndexInBounds
BY DamageKeepsWords, TypedFileInBounds, PTL
-----------------------------------------------------------------------------
(* Files and their prefixes.                                               *)

\* A file whose words and frames are inside it.
IsFile(f) ==
    /\ f = [size |-> f.size, words |-> f.words, frames |-> f.frames]
    /\ f.size \in Nat
    /\ f.words = [p \in DOMAIN f.words |-> f.words[p]]
    /\ f.frames = [p \in DOMAIN f.frames |-> f.frames[p]]
    /\ \A p \in DOMAIN f.words : p \in Nat /\ p + 8 <= f.size
    /\ \A p \in DOMAIN f.frames :
          p \in Nat /\ f.frames[p].length \in Nat /\ p + f.frames[p].length <= f.size

\* The whole of a file is the file.
LEMMA WholePrefix ==
    ASSUME NEW f, IsFile(f)
    PROVE  Prefix(f, f.size) = f
<1>1. {p \in DOMAIN f.words : p + 8 <= f.size} = DOMAIN f.words
  BY DEF IsFile
<1>2. {p \in DOMAIN f.frames : p + f.frames[p].length <= f.size} = DOMAIN f.frames
  BY DEF IsFile
<1>3. Restrict(f.words, DOMAIN f.words) = f.words
  BY DEF IsFile, Restrict
<1>4. Restrict(f.frames, DOMAIN f.frames) = f.frames
  BY DEF IsFile, Restrict
<1> QED  BY <1>1, <1>2, <1>3, <1>4 DEF Prefix, IsFile

\* What is read from a prefix.
LEMMA PrefixReads ==
    ASSUME NEW f, IsFile(f), NEW n \in Nat
    PROVE  /\ Prefix(f, n).size = n
           /\ \A p \in Nat : p \in DOMAIN f.words /\ p + 8 <= n =>
                 GetLE64(Prefix(f, n), p) = f.words[p]
           /\ \A p \in Nat : p \notin DOMAIN f.words =>
                 GetLE64(Prefix(f, n), p) = Payload
           /\ DOMAIN Prefix(f, n).frames \subseteq DOMAIN f.frames
<1>1. Prefix(f, n).words = Restrict(f.words, {p \in DOMAIN f.words : p + 8 <= n})
  BY DEF Prefix
<1>2. Prefix(f, n).frames
        = Restrict(f.frames, {p \in DOMAIN f.frames : p + f.frames[p].length <= n})
  BY DEF Prefix
<1>3. Prefix(f, n).size = n
  BY DEF Prefix
<1> QED  BY <1>1, <1>2, <1>3 DEF Restrict, GetLE64

\* A file that does not end with the magic has no index.
LEMMA NoTrailer ==
    ASSUME NEW f, f.size \in Word, f.size >= 24 => GetLE64(f, f.size - 8) # kContainerMagic
    PROVE  Verdict(f) # "index"
<1>1. CASE f.size >= 24
  <2>1. 8 \in Word /\ 8 <= f.size
    BY <1>1, ContainerAssumption DEF Word
  <2>2. Sub(f.size, 8) = f.size - 8
    BY <2>1, SubExact
  <2> QED  BY <1>1, <2>2 DEF Verdict, IsIntact, HasTrailer
<1>2. CASE ~ (f.size >= 24)
  BY <1>2 DEF Verdict, IsContainer, kMagicLen
<1> QED  BY <1>1, <1>2

\* A file without an index and without a frame at its beginning is not read.
LEMMA Unserved ==
    ASSUME NEW f, Verdict(f) # "index", 0 \notin DOMAIN f.frames
    PROVE  Scan(f) = Unreadable
<1>1. DecompressToBuffer(f) = Unreadable
  BY DEF DecompressToBuffer, decompressSerial
<1> DEFINE c == << Unreadable >>
<1>2. \E i \in DOMAIN c : c[i] = Unreadable
  BY 1 \in DOMAIN c
<1> QED  BY <1>1, <1>2 DEF Scan

-----------------------------------------------------------------------------
(* One frame alone.                                                        *)

LEMMA EmptyIsFile == IsFile(EmptyFile)
BY DEF IsFile, EmptyFile

\* A frame at the beginning of a file with nothing else.
LEMMA PlainIs ==
    ASSUME NEW id, NEW len \in Nat
    PROVE  LET f == PutFrame(EmptyFile, id, len)
           IN  /\ f = [size |-> len, words |-> << >>,
                       frames |-> [p \in {0} |-> [id |-> id, length |-> len]]]
               /\ IsFile(f)
<1> DEFINE fs == [p \in {0} |-> [id |-> id, length |-> len]]
<1>1. PutFrame(EmptyFile, id, len) = [size |-> len, words |-> << >>, frames |-> fs]
  <2>1. EmptyFile.size + len = len /\ DOMAIN EmptyFile.frames = {} /\ EmptyFile.size = 0
    BY DEF EmptyFile
  <2>2. [p \in {EmptyFile.size} \cup DOMAIN EmptyFile.frames |->
            IF p = EmptyFile.size THEN [id |-> id, length |-> len] ELSE EmptyFile.frames[p]] = fs
    BY <2>1
  <2> QED  BY <2>1, <2>2 DEF PutFrame, EmptyFile
<1>2. IsFile([size |-> len, words |-> << >>, frames |-> fs])
  BY DEF IsFile
<1> QED  BY <1>1, <1>2

\* A plain frame is read as what it is, and no part of one is read.
LEMMA PlainReads ==
    ASSUME NEW id \in Int, NEW len \in Nat, NEW k \in 0 .. len
    PROVE  LET f == Prefix(PutFrame(EmptyFile, id, len), k)
           IN  /\ Verdict(f) = "plain"
               /\ k = len => Scan(f) = << id >> /\ decompressSerial(f, 0, f.size) = id
               /\ k < len => Scan(f) = Unreadable
                             /\ decompressSerial(f, 0, f.size) = Unreadable
<1> DEFINE g == PutFrame(EmptyFile, id, len)
           f == Prefix(g, k)
<1>1. g = [size |-> len, words |-> << >>,
           frames |-> [p \in {0} |-> [id |-> id, length |-> len]]] /\ IsFile(g)
  BY PlainIs
<1>2. f.size = k /\ GetLE64(f, 0) = Payload
  <2>1. 0 \notin DOMAIN g.words
    BY <1>1
  <2> HIDE DEF g
  <2> QED  BY <1>1, <2>1, PrefixReads
<1>3. Verdict(f) = "plain"
  BY <1>2, ContainerAssumption DEF Verdict, IsContainer
<1>4. f.frames = Restrict(g.frames, {p \in DOMAIN g.frames : p + g.frames[p].length <= k})
  BY DEF Prefix
<1>5. DecompressToBuffer(f) = decompressSerial(f, 0, k)
  BY <1>2, <1>3 DEF DecompressToBuffer
<1>6. Scan(f) = IF DecompressToBuffer(f) = Unreadable
                THEN Unreadable ELSE << DecompressToBuffer(f) >>
  <2> DEFINE c == << DecompressToBuffer(f) >>
  <2>1. DOMAIN c = {1} /\ c[1] = DecompressToBuffer(f)
    OBVIOUS
  <2> HIDE DEF f
  <2> QED  BY <1>3, <2>1 DEF Scan
<1>7. CASE k = len
  <2>1. f = g
    BY <1>1, <1>7, WholePrefix
  <2>2. decompressSerial(f, 0, k) = id
    BY <1>1, <1>7, <2>1 DEF decompressSerial
  <2> QED  BY <1>2, <1>3, <1>5, <1>6, <1>7, <2>2, ContainerAssumption
<1>8. CASE k < len
  <2>1. DOMAIN f.frames = {}
    BY <1>1, <1>4, <1>8 DEF Restrict
  <2>2. decompressSerial(f, 0, k) = Unreadable
    BY <2>1 DEF decompressSerial
  <2> QED  BY <1>2, <1>3, <1>5, <1>6, <1>8, <2>2
<1> QED  BY <1>7, <1>8
-----------------------------------------------------------------------------
(* Archives of several chunks.                                             *)

\* The magic and then the frames, in the ranges r and before p.
Laid(f, r, p, ids) ==
    /\ IsFile(f)
    /\ p \in Nat
    /\ r \in Seq([offset : Nat, length : Nat])
    /\ DOMAIN ids = 1 .. Len(r)
    /\ DOMAIN f.frames = { r[i].offset : i \in 1 .. Len(r) }
    /\ \A i \in 1 .. Len(r) :
          /\ kMagicLen <= r[i].offset /\ r[i].offset + r[i].length <= p
          /\ 0 < r[i].length
          /\ f.frames[r[i].offset] = [id |-> ids[i], length |-> r[i].length]
    /\ 0 \in DOMAIN f.words /\ f.words[0] = kContainerMagic

Unfinished(f, r, p, ids) ==
    Laid(f, r, p, ids) /\ f.size = p /\ DOMAIN f.words = {0}

\* The index, the count and the magic follow the last frame.
Sealed(f, r, p, ids) ==
    /\ Laid(f, r, p, ids)
    /\ f.size = p + 16 * Len(r) + 16
    /\ f.size < kContainerMagic
    /\ Len(r) > 0
    /\ \A q \in DOMAIN f.words : q \notin {0, f.size - 8} => f.words[q] # kContainerMagic
    /\ \A i \in 1 .. Len(r) :
          /\ p + 16 * (i - 1) \in DOMAIN f.words
          /\ p + 16 * (i - 1) + 8 \in DOMAIN f.words
          /\ f.words[p + 16 * (i - 1)] = r[i].offset
          /\ f.words[p + 16 * (i - 1) + 8] = r[i].length
    /\ f.size - 16 \in DOMAIN f.words /\ f.words[f.size - 16] = Len(r)
    /\ f.size - 8 \in DOMAIN f.words /\ f.words[f.size - 8] = kContainerMagic

\* What a range of such an archive is, and the frame there.
LEMMA LaidIs ==
    ASSUME NEW f, NEW r, NEW p, NEW ids, Laid(f, r, p, ids)
    PROVE  /\ Len(r) \in Nat /\ p \in Nat /\ f.size \in Nat
           /\ \A i \in 1 .. Len(r) : r[i] \in [offset : Nat, length : Nat]
           /\ \A i \in 1 .. Len(r) :
                 LET o == r[i].offset
                     l == r[i].length
                 IN  /\ o \in Nat /\ l \in Nat /\ 0 < l
                     /\ 8 <= o /\ o + l <= p
                     /\ o \in DOMAIN f.frames
                     /\ f.frames[o] = [id |-> ids[i], length |-> l]
<1> DEFINE S == [offset : Nat, length : Nat]
<1>1. r \in Seq(S) /\ p \in Nat /\ f.size \in Nat
  BY DEF Laid, IsFile
<1> HIDE DEF S
<1>2. Len(r) \in Nat /\ \A i \in 1 .. Len(r) : r[i] \in S
  BY <1>1
<1> USE DEF S
<1>3. \A i \in 1 .. Len(r) :
         /\ kMagicLen <= r[i].offset /\ r[i].offset + r[i].length <= p
         /\ 0 < r[i].length
         /\ r[i].offset \in DOMAIN f.frames
         /\ f.frames[r[i].offset] = [id |-> ids[i], length |-> r[i].length]
  BY DEF Laid
<1> QED  BY <1>1, <1>2, <1>3 DEF kMagicLen

\* No frame is at the beginning of such a file or of a part of it.
LEMMA NoFrameFirst ==
    ASSUME NEW f, NEW r, NEW p, NEW ids, Laid(f, r, p, ids), NEW k \in Nat
    PROVE  /\ 0 \notin DOMAIN Prefix(f, k).frames
           /\ decompressSerial(Prefix(f, k), 0, Prefix(f, k).size) = Unreadable
<1>1. 0 \notin DOMAIN f.frames
  <2>1. ASSUME NEW i \in 1 .. Len(r) PROVE r[i].offset # 0
    <3>1. r[i].offset \in Nat /\ 8 <= r[i].offset
      BY LaidIs
    <3> QED  BY <3>1
  <2>2. DOMAIN f.frames = { r[i].offset : i \in 1 .. Len(r) }
    BY DEF Laid
  <2> QED  BY <2>1, <2>2
<1> QED  BY <1>1, PrefixReads DEF Laid, decompressSerial

\* What is on disk of an archive without an index is refused.
LEMMA UnfinishedIsRefused ==
    ASSUME NEW f, NEW r, NEW p, NEW ids, Unfinished(f, r, p, ids),
           NEW k \in 0 .. p, p < WordModulus
    PROVE  Verdict(Prefix(f, k)) # "index" /\ Scan(Prefix(f, k)) = Unreadable
<1>1. IsFile(f) /\ k \in Nat /\ p \in Nat
  BY DEF Unfinished, Laid
<1> DEFINE g == Prefix(f, k)
<1>2. g.size = k /\ k \in Word
  BY <1>1, PrefixReads, ContainerAssumption DEF Word
<1>3. k >= 24 => GetLE64(g, k - 8) = Payload
  <2> SUFFICES ASSUME k >= 24 PROVE GetLE64(g, k - 8) = Payload
    OBVIOUS
  <2>1. k - 8 \in Nat /\ k - 8 \notin DOMAIN f.words
    BY <1>1 DEF Unfinished
  <2> QED  BY <1>1, <2>1, PrefixReads
<1> HIDE DEF g
<1>4. Verdict(g) # "index"
  BY <1>2, <1>3, NoTrailer, ContainerAssumption
<1>5. 0 \notin DOMAIN g.frames
  BY <1>1, NoFrameFirst DEF Unfinished, g
<1> QED  BY <1>4, <1>5, Unserved DEF g

\* So is one that has lost as little as a byte of it.
LEMMA CutOffIsRefused ==
    ASSUME NEW f, NEW r, NEW p, NEW ids, Sealed(f, r, p, ids),
           NEW k \in 0 .. f.size - 1
    PROVE  Verdict(Prefix(f, k)) # "index" /\ Scan(Prefix(f, k)) = Unreadable
<1>1. IsFile(f) /\ f.size \in Nat /\ k \in Nat /\ f.size < WordModulus
  BY ContainerAssumption DEF Sealed, Laid, IsFile
<1> DEFINE g == Prefix(f, k)
<1>2. g.size = k /\ k \in Word
  BY <1>1, PrefixReads, ContainerAssumption DEF Word
<1>3. k >= 24 => GetLE64(g, k - 8) # kContainerMagic
  <2> SUFFICES ASSUME k >= 24 PROVE GetLE64(g, k - 8) # kContainerMagic
    OBVIOUS
  <2>1. k - 8 \in Nat /\ k - 8 \notin {0, f.size - 8} /\ (k - 8) + 8 <= k
    BY <1>1
  <2>2. CASE k - 8 \in DOMAIN f.words
    <3>1. GetLE64(g, k - 8) = f.words[k - 8]
      BY <1>1, <2>1, <2>2, PrefixReads
    <3> QED  BY <2>1, <2>2, <3>1 DEF Sealed
  <2>3. CASE k - 8 \notin DOMAIN f.words
    BY <1>1, <2>1, <2>3, PrefixReads, ContainerAssumption
  <2> QED  BY <2>2, <2>3
<1> HIDE DEF g
<1>4. Verdict(g) # "index"
  BY <1>2, <1>3, NoTrailer
<1>5. 0 \notin DOMAIN g.frames
  BY <1>1, NoFrameFirst DEF Sealed, g
<1> QED  BY <1>4, <1>5, Unserved DEF g

\* A whole one reads as its chunks in their order.
LEMMA SealedReads ==
    ASSUME NEW f, NEW r, NEW p, NEW ids, Sealed(f, r, p, ids),
           \A i \in 1 .. Len(r) : ids[i] \in Int
    PROVE  /\ Verdict(f) = "index"
           /\ Count(f) = Len(r)
           /\ Scan(f) = [i \in 1 .. Len(r) |-> ids[i]]
<1> DEFINE n == Len(r)
<1>1. /\ f.size \in Nat /\ p \in Nat /\ n \in Nat \ {0}
      /\ f.size = p + 16 * n + 16 /\ f.size < kContainerMagic
      /\ kContainerMagic \in Nat /\ WordModulus \in Nat /\ kContainerMagic < WordModulus
  <2>1. Laid(f, r, p, ids) /\ n > 0 /\ f.size = p + 16 * n + 16 /\ f.size < kContainerMagic
    BY DEF Sealed
  <2> QED  BY <2>1, LaidIs, ContainerAssumption
<1>a. ASSUME NEW i \in 1 .. n
      PROVE  LET o == r[i].offset
                 l == r[i].length
             IN  /\ o \in Nat /\ l \in Nat /\ 8 <= o /\ o + l <= p
                 /\ o \in DOMAIN f.frames
                 /\ f.frames[o] = [id |-> ids[i], length |-> l]
  <2>1. Laid(f, r, p, ids)
    BY DEF Sealed
  <2> QED  BY <2>1, LaidIs
<1>2. p >= 8
  <2>1. 1 \in 1 .. n
    BY <1>1
  <2>2. /\ r[1].offset \in Nat /\ r[1].length \in Nat
        /\ 8 <= r[1].offset /\ r[1].offset + r[1].length <= p
    BY <1>a, <2>1
  <2> QED  BY <1>1, <2>2
<1>3. IsContainer(f)
  BY <1>1, <1>2 DEF IsContainer, kMagicLen, GetLE64, Sealed, Laid
<1>4. Sub(f.size, 8) = f.size - 8 /\ Sub(f.size, 16) = f.size - 16
      /\ Sub(Sub(f.size, 8), 16) = f.size - 24
  <2>1. /\ f.size \in Word /\ 8 \in Word /\ 16 \in Word /\ 24 <= f.size
        /\ f.size - 8 \in Word
    BY <1>1, <1>2 DEF Word
  <2> QED  BY <1>1, <2>1, SubExact
<1>5. HasTrailer(f) /\ Count(f) = n
  BY <1>4 DEF HasTrailer, Count, GetLE64, Sealed
<1>6. CountFits(f)
  <2>1. n <= (f.size - 24) \div 16
    BY <1>1, <1>2
  <2> QED  BY <1>1, <1>4, <1>5, <2>1 DEF CountFits, kMagicLen
<1>7. Mul(n, 16) = n * 16 /\ Mul(Count(f), 16) = n * 16
  <2>1. n * 16 < WordModulus
    BY <1>1
  <2> QED  BY <1>1, <1>5, <2>1, MulExact
<1>8. IndexStart(f) = p
  <2>1. f.size - 16 \in Word /\ n * 16 \in Word /\ n * 16 <= f.size - 16
    BY <1>1 DEF Word
  <2>2. Sub(f.size - 16, n * 16) = f.size - 16 - n * 16
    BY <2>1, SubExact
  <2> QED  BY <1>1, <1>4, <1>7, <2>2 DEF IndexStart
<1>9. IndexReadable(f)
  BY <1>1, <1>7, <1>8 DEF IndexReadable
<1>10. ASSUME NEW i \in 1 .. n
       PROVE  ChunkRange(f, i) = r[i]
  <2>1. ChunkRange(f, i) = [offset |-> r[i].offset, length |-> r[i].length]
    BY <1>8 DEF ChunkRange, GetLE64, Sealed
  <2>2. r[i] \in [offset : Nat, length : Nat]
    BY LaidIs DEF Sealed
  <2> QED  BY <2>1, <2>2
<1>11. ASSUME NEW i \in 1 .. n
       PROVE  InRange(f, r[i])
  <2> DEFINE o == r[i].offset
             l == r[i].length
  <2>1. o \in Nat /\ l \in Nat /\ 8 <= o /\ o + l <= p
    BY <1>a
  <2> HIDE DEF o, l
  <2>2. p \in Word /\ o \in Word /\ o <= p
    BY <1>1, <2>1 DEF Word
  <2>3. Sub(p, o) = p - o
    BY <2>2, SubExact
  <2>4. 8 <= o /\ o <= p /\ l <= Sub(p, o)
    BY <1>1, <2>1, <2>2, <2>3
  <2> QED  BY <1>8, <2>4 DEF InRange, kMagicLen, o, l
<1>12. Verdict(f) = "index"
  BY <1>3, <1>5, <1>6, <1>9, <1>10, <1>11 DEF Verdict, IsIntact
<1>13. ASSUME NEW i \in 1 .. n
       PROVE  DecompressChunkToBuffer(f, i) = ids[i]
  <2> DEFINE o == r[i].offset
             l == r[i].length
  <2>1. o \in Nat /\ l \in Nat /\ o + l <= p /\ o \in DOMAIN f.frames
        /\ f.frames[o] = [id |-> ids[i], length |-> l]
    BY <1>a
  <2> HIDE DEF o, l
  <2>2. o + l <= f.size
    BY <1>1, <2>1
  <2>3. decompressSerial(f, o, l) = ids[i]
    BY <2>1, <2>2 DEF decompressSerial
  <2> QED  BY <1>5, <1>10, <1>12, <2>3 DEF DecompressChunkToBuffer, o, l
<1>14. Scan(f) = [i \in 1 .. n |-> ids[i]]
  <2> DEFINE c == [i \in 1 .. ChunkCount(f) |-> DecompressChunkToBuffer(f, i)]
  <2>1. ChunkCount(f) = n
    BY <1>5, <1>12 DEF ChunkCount
  <2>2. c = [i \in 1 .. n |-> ids[i]]
    BY <1>13, <2>1
  <2>3. \A i \in DOMAIN c : c[i] # Unreadable
    BY <2>2, ContainerAssumption
  <2> HIDE DEF c
  <2>4. Scan(f) = IF \E i \in DOMAIN c : c[i] = Unreadable THEN Unreadable ELSE c
    BY <1>12 DEF Scan, c
  <2> QED  BY <2>2, <2>3, <2>4
<1> QED  BY <1>5, <1>12, <1>14
-----------------------------------------------------------------------------
(* How the writer makes such an archive.                                   *)

\* The magic alone, which the second chunk puts before the first.
LEMMA MagicFirst ==
    Unfinished(PutWords(EmptyFile, << kContainerMagic >>), << >>, kMagicLen, << >>)
<1> DEFINE f == PutWords(EmptyFile, << kContainerMagic >>)
           ws == << kContainerMagic >>
           new == { 0 + 8 * (k - 1) : k \in DOMAIN ws }
<1>1. new = {0} /\ DOMAIN EmptyFile.words = {} /\ EmptyFile.size = 0
      /\ DOMAIN EmptyFile.frames = {} /\ EmptyFile.frames = << >>
  BY DEF EmptyFile
<1>2. f.size = 8
  <2>1. f.size = EmptyFile.size + 8 * Len(ws)
    BY DEF PutWords
  <2> QED  BY <1>1, <2>1
<1>3. f.words = [p \in {0} |-> kContainerMagic]
  <2>1. f.words = [p \in new \cup {} |-> IF p \in new THEN ws[(p - 0) \div 8 + 1] ELSE EmptyFile.words[p]]
    BY <1>1 DEF PutWords
  <2>2. ws[(0 - 0) \div 8 + 1] = kContainerMagic
    OBVIOUS
  <2> QED  BY <1>1, <2>1, <2>2
<1>4. f.frames = << >> /\ f = [size |-> f.size, words |-> f.words, frames |-> f.frames]
  BY <1>1 DEF PutWords
<1> HIDE DEF f
<1>5. IsFile(f)
  BY <1>2, <1>3, <1>4 DEF IsFile
<1>6. << >> \in Seq([offset : Nat, length : Nat]) /\ Len(<< >>) = 0
  OBVIOUS
<1>7. DOMAIN f.frames = {} /\ { << >>[i].offset : i \in 1 .. 0 } = {}
  BY <1>4
<1> QED  BY <1>2, <1>3, <1>5, <1>6, <1>7 DEF Unfinished, Laid, kMagicLen, f

\* One more chunk, at the position where the file ends.
LEMMA ChunkAppended ==
    ASSUME NEW f, NEW r, NEW p, NEW ids, Unfinished(f, r, p, ids),
           NEW len \in Nat \ {0}, NEW id, NEW more, DOMAIN more = 1 .. Len(r) + 1,
           \A i \in 1 .. Len(r) : more[i] = ids[i], more[Len(r) + 1] = id
    PROVE  Unfinished(PutFrame(f, id, len), Append(r, [offset |-> p, length |-> len]),
                      p + len, more)
<1> DEFINE g == PutFrame(f, id, len)
           e == [offset |-> p, length |-> len]
           q == Append(r, e)
           S == [offset : Nat, length : Nat]
           n == Len(r)
<1>1. /\ n \in Nat /\ p \in Nat /\ f.size = p /\ IsFile(f)
      /\ DOMAIN f.words = {0} /\ f.words[0] = kContainerMagic
      /\ r \in Seq(S) /\ DOMAIN f.frames = { r[i].offset : i \in 1 .. n }
  BY LaidIs DEF Unfinished, Laid
<1>2. \A i \in 1 .. n :
         LET o == r[i].offset
             l == r[i].length
         IN  /\ o \in Nat /\ l \in Nat /\ 0 < l /\ 8 <= o /\ o + l <= p
             /\ o \in DOMAIN f.frames
             /\ f.frames[o] = [id |-> ids[i], length |-> l]
  BY LaidIs DEF Unfinished
<1>3. 8 <= p
  BY <1>1 DEF IsFile
<1>4. /\ q \in Seq(S) /\ Len(q) = n + 1
      /\ \A i \in 1 .. n : q[i] = r[i]
      /\ q[n + 1] = e
  <2>1. e \in S
    BY <1>1
  <2> HIDE DEF e, S
  <2> QED  BY <1>1, <2>1
<1>5. /\ g = [size |-> g.size, words |-> g.words, frames |-> g.frames]
      /\ g.size = p + len /\ g.words = f.words
      /\ g.frames = [x \in {p} \cup DOMAIN f.frames |->
                        IF x = p THEN [id |-> id, length |-> len] ELSE f.frames[x]]
  BY <1>1 DEF PutFrame
<1> HIDE DEF g, q
<1>6. /\ DOMAIN g.frames = {p} \cup DOMAIN f.frames
      /\ g.frames[p] = [id |-> id, length |-> len]
      /\ \A x \in DOMAIN f.frames : x # p => g.frames[x] = f.frames[x]
  BY <1>5
<1>7. IsFile(g)
  <2>1. \A x \in DOMAIN g.words : x \in Nat /\ x + 8 <= g.size
    BY <1>1, <1>3, <1>5
  <2>2. ASSUME NEW x \in DOMAIN g.frames
        PROVE  x \in Nat /\ g.frames[x].length \in Nat /\ x + g.frames[x].length <= g.size
    <3>1. CASE x = p
      BY <1>1, <1>5, <1>6, <3>1
    <3>2. CASE x # p
      <4>1. x \in Nat /\ f.frames[x].length \in Nat /\ x + f.frames[x].length <= f.size
        BY <1>1, <1>6, <3>2 DEF IsFile
      <4>2. g.frames[x] = f.frames[x]
        BY <1>6, <3>2
      <4>3. g.size \in Nat /\ f.size <= g.size /\ f.size \in Nat
        BY <1>1, <1>5
      <4> DEFINE y == f.frames[x].length
      <4>4. x \in Nat /\ y \in Nat /\ x + y <= f.size
        BY <4>1
      <4> HIDE DEF y
      <4>5. x + y <= g.size
        BY <4>3, <4>4
      <4> QED  BY <4>2, <4>4, <4>5 DEF y
    <3> QED  BY <3>1, <3>2
  <2>3. g.words = [x \in DOMAIN g.words |-> g.words[x]]
        /\ g.frames = [x \in DOMAIN g.frames |-> g.frames[x]]
    BY <1>1, <1>5 DEF IsFile
  <2>4. g.size \in Nat
    BY <1>1, <1>5
  <2> QED  BY <1>5, <2>1, <2>2, <2>3, <2>4 DEF IsFile
<1>8. DOMAIN g.frames = { q[i].offset : i \in 1 .. n + 1 }
  <2>1. 1 .. n + 1 = (1 .. n) \cup {n + 1}
    BY <1>1
  <2>2. { q[i].offset : i \in 1 .. n } = DOMAIN f.frames
    BY <1>1, <1>4
  <2>3. q[n + 1].offset = p
    BY <1>4
  <2> QED  BY <1>6, <2>1, <2>2, <2>3
<1>9. ASSUME NEW i \in 1 .. n + 1
      PROVE  /\ kMagicLen <= q[i].offset /\ q[i].offset + q[i].length <= p + len
             /\ 0 < q[i].length
             /\ g.frames[q[i].offset] = [id |-> more[i], length |-> q[i].length]
  <2>1. CASE i = n + 1
    <3>1. q[i].offset = p /\ q[i].length = len
      BY <1>4, <2>1
    <3> QED  BY <1>1, <1>3, <1>6, <2>1, <3>1 DEF kMagicLen
  <2>2. CASE i # n + 1
    <3> DEFINE o == r[i].offset
               l == r[i].length
    <3>1. i \in 1 .. n
      BY <1>1, <2>2
    <3>2. q[i].offset = o /\ q[i].length = l
      BY <1>4, <3>1
    <3>3. /\ o \in Nat /\ l \in Nat /\ 0 < l /\ 8 <= o /\ o + l <= p
          /\ o \in DOMAIN f.frames
          /\ f.frames[o] = [id |-> ids[i], length |-> l]
      BY <1>2, <3>1
    <3> HIDE DEF o, l
    <3>4. o # p /\ o + l <= p + len
      <4>1. p \in Nat /\ len \in Nat /\ o \in Nat /\ l \in Nat /\ 0 < l /\ o + l <= p
        BY <1>1, <3>3
      <4> QED  BY <4>1
    <3>5. g.frames[o] = [id |-> more[i], length |-> l]
      BY <1>6, <3>1, <3>3, <3>4
    <3> QED  BY <3>2, <3>3, <3>4, <3>5 DEF kMagicLen
  <2> QED  BY <2>1, <2>2
<1>10. Laid(g, q, p + len, more)
  <2>1. p + len \in Nat /\ Len(q) = n + 1 /\ DOMAIN more = 1 .. Len(q)
    BY <1>1, <1>4
  <2>2. 0 \in DOMAIN g.words /\ g.words[0] = kContainerMagic
    BY <1>1, <1>5
  <2> QED  BY <1>4, <1>7, <1>8, <1>9, <2>1, <2>2 DEF Laid
<1> QED  BY <1>1, <1>5, <1>10 DEF Unfinished, g, q
\* The words that follow the last frame.
IsTrailer(ws, r) ==
    /\ DOMAIN ws = 1 .. 2 * Len(r) + 2 /\ Len(ws) = 2 * Len(r) + 2
    /\ \A i \in 1 .. Len(r) : ws[2 * i - 1] = r[i].offset /\ ws[2 * i] = r[i].length
    /\ ws[2 * Len(r) + 1] = Len(r)
    /\ ws[2 * Len(r) + 2] = kContainerMagic

\* With them the archive is one that is read.
LEMMA TrailerSeals ==
    ASSUME NEW f, NEW r, NEW p, NEW ids, Unfinished(f, r, p, ids), Len(r) > 0,
           p + 16 * Len(r) + 16 < kContainerMagic, NEW ws, IsTrailer(ws, r)
    PROVE  Sealed(PutWords(f, ws), r, p, ids)
<1> DEFINE g == PutWords(f, ws)
           n == Len(r)
           K == 1 .. 2 * n + 2
           new == { p + 8 * (k - 1) : k \in K }
<1>1. /\ n \in Nat /\ n > 0 /\ p \in Nat /\ f.size = p /\ IsFile(f)
      /\ DOMAIN f.words = {0} /\ f.words[0] = kContainerMagic
      /\ kContainerMagic \in Nat
  BY LaidIs, ContainerAssumption DEF Unfinished, Laid
<1>2. 8 <= p
  BY <1>1 DEF IsFile
<1>3. DOMAIN ws = K /\ Len(ws) = 2 * n + 2
  BY DEF IsTrailer
<1>4. /\ g = [size |-> g.size, words |-> g.words, frames |-> g.frames]
      /\ g.size = p + 16 * n + 16 /\ g.frames = f.frames
      /\ g.words = [q \in new \cup {0} |->
                       IF q \in new THEN ws[(q - p) \div 8 + 1] ELSE f.words[q]]
  <2>1. 8 * (2 * n + 2) = 16 * n + 16 /\ p + (16 * n + 16) = p + 16 * n + 16
    BY <1>1
  <2> QED  BY <1>1, <1>3, <2>1 DEF PutWords
<1> HIDE DEF g
<1>5. 0 \notin new
  BY <1>1, <1>2
<1>6. ASSUME NEW k \in K
      PROVE  p + 8 * (k - 1) \in DOMAIN g.words /\ g.words[p + 8 * (k - 1)] = ws[k]
  <2>1. p + 8 * (k - 1) \in new
    OBVIOUS
  <2>2. ((p + 8 * (k - 1)) - p) \div 8 + 1 = k
    BY <1>1
  <2> QED  BY <1>4, <2>1, <2>2
<1>7. 0 \in DOMAIN g.words /\ g.words[0] = kContainerMagic
  BY <1>1, <1>4, <1>5
<1>8. ASSUME NEW q \in DOMAIN g.words, q # 0
      PROVE  \E k \in K : q = p + 8 * (k - 1)
  BY <1>4, <1>8
<1>9. IsFile(g)
  <2>1. g.size \in Nat /\ p <= g.size
    BY <1>1, <1>4
  <2>2. ASSUME NEW q \in DOMAIN g.words
        PROVE  q \in Nat /\ q + 8 <= g.size
    <3>1. CASE q = 0
      BY <1>1, <1>4, <3>1
    <3>2. CASE q # 0
      <4>1. PICK k \in K : q = p + 8 * (k - 1)
        BY <1>8, <3>2
      <4>2. /\ k \in Nat /\ 1 <= k /\ k <= 2 * n + 2
            /\ n \in Nat /\ p \in Nat /\ g.size = p + 16 * n + 16
        BY <1>1, <1>4
      <4> QED  BY <4>1, <4>2
    <3> QED  BY <3>1, <3>2
  <2>3. ASSUME NEW q \in DOMAIN g.frames
        PROVE  q \in Nat /\ g.frames[q].length \in Nat /\ q + g.frames[q].length <= g.size
    <3> DEFINE y == f.frames[q].length
    <3>1. q \in Nat /\ y \in Nat /\ q + y <= p
      BY <1>1, <1>4 DEF IsFile
    <3> HIDE DEF y
    <3>2. q + y <= g.size
      BY <1>1, <2>1, <3>1
    <3> QED  BY <1>4, <3>1, <3>2 DEF y
  <2>4. g.words = [q \in DOMAIN g.words |-> g.words[q]]
        /\ g.frames = [q \in DOMAIN g.frames |-> g.frames[q]]
    BY <1>1, <1>4 DEF IsFile
  <2> QED  BY <1>4, <2>1, <2>2, <2>3, <2>4 DEF IsFile
<1>10. Laid(g, r, p, ids)
  BY <1>4, <1>7, <1>9 DEF Unfinished, Laid
<1>11. ASSUME NEW i \in 1 .. n
       PROVE  /\ p + 16 * (i - 1) \in DOMAIN g.words
              /\ p + 16 * (i - 1) + 8 \in DOMAIN g.words
              /\ g.words[p + 16 * (i - 1)] = r[i].offset
              /\ g.words[p + 16 * (i - 1) + 8] = r[i].length
  <2>1. /\ 2 * i - 1 \in K /\ p + 8 * ((2 * i - 1) - 1) = p + 16 * (i - 1)
        /\ 2 * i \in K /\ p + 8 * (2 * i - 1) = p + 16 * (i - 1) + 8
    BY <1>1
  <2>2. ws[2 * i - 1] = r[i].offset /\ ws[2 * i] = r[i].length
    BY DEF IsTrailer
  <2> QED  BY <1>6, <2>1, <2>2
<1>12. /\ g.size - 16 \in DOMAIN g.words /\ g.words[g.size - 16] = n
       /\ g.size - 8 \in DOMAIN g.words /\ g.words[g.size - 8] = kContainerMagic
  <2>1. /\ 2 * n + 1 \in K /\ p + 8 * ((2 * n + 1) - 1) = g.size - 16
        /\ 2 * n + 2 \in K /\ p + 8 * ((2 * n + 2) - 1) = g.size - 8
    BY <1>1, <1>4
  <2>2. ws[2 * n + 1] = n /\ ws[2 * n + 2] = kContainerMagic
    BY DEF IsTrailer
  <2> QED  BY <1>6, <2>1, <2>2
<1>13. ASSUME NEW q \in DOMAIN g.words, q \notin {0, g.size - 8}
       PROVE  g.words[q] # kContainerMagic
  <2>1. PICK k \in K : q = p + 8 * (k - 1)
    BY <1>8, <1>13
  <2>2. g.words[q] = ws[k]
    BY <1>6, <2>1
  <2>3. k # 2 * n + 2
    BY <1>1, <1>4, <1>13, <2>1
  <2>4. CASE k = 2 * n + 1
    <3>1. ws[k] = n
      BY <2>4 DEF IsTrailer
    <3> QED  BY <1>1, <2>2, <3>1
  <2>5. CASE k # 2 * n + 1
    <3>1. PICK i \in 1 .. n : k = 2 * i - 1 \/ k = 2 * i
      <4>1. k \in 1 .. 2 * n
        BY <1>1, <2>3, <2>5
      <4>2. (k + 1) \div 2 \in 1 .. n
        BY <1>1, <4>1
      <4>3. k = 2 * ((k + 1) \div 2) - 1 \/ k = 2 * ((k + 1) \div 2)
        BY <4>1
      <4> QED  BY <4>2, <4>3
    <3>2. ws[k] = r[i].offset \/ ws[k] = r[i].length
      BY <3>1 DEF IsTrailer
    <3> DEFINE o == r[i].offset
               l == r[i].length
    <3>3. o \in Nat /\ l \in Nat /\ o + l <= p
      BY LaidIs DEF Unfinished
    <3> HIDE DEF o, l
    <3>4. o < kContainerMagic /\ l < kContainerMagic
      BY <1>1, <3>3
    <3> QED  BY <2>2, <3>2, <3>3, <3>4, <1>1 DEF o, l
  <2> QED  BY <2>4, <2>5
<1>14. g.size < kContainerMagic
  BY <1>4
<1> QED  BY <1>1, <1>4, <1>10, <1>11, <1>12, <1>13, <1>14 DEF Sealed, g

\* Finish writes them.
LEMMA TrailerIs ==
    ASSUME ranges_ \in Seq([offset : Nat, length : Nat])
    PROVE  IsTrailer(Trailer, ranges_)
<1> DEFINE S == [offset : Nat, length : Nat]
           n == Len(ranges_)
           A == [k \in 1 .. 2 * n |-> LET e == ranges_[(k + 1) \div 2]
                                      IN  IF k % 2 = 1 THEN e.offset ELSE e.length]
           B == << n, kContainerMagic >>
<1>1. n \in Nat /\ \A i \in 1 .. n : ranges_[i] \in S
  <2>1. ranges_ \in Seq(S)
    OBVIOUS
  <2> HIDE DEF S
  <2> QED  BY <2>1
<1>2. A \in Seq(Nat)
  <2>1. ASSUME NEW k \in 1 .. 2 * n PROVE A[k] \in Nat
    <3>1. (k + 1) \div 2 \in 1 .. n
      BY <1>1
    <3> QED  BY <1>1, <3>1
  <2> HIDE DEF A
  <2>2. A \in [1 .. 2 * n -> Nat]
    BY <2>1 DEF A
  <2> QED  BY <1>1, <2>2
<1>3. Len(A) = 2 * n /\ B \in Seq(Nat) /\ Len(B) = 2
  BY <1>1, <1>2, ContainerAssumption
<1>4. Trailer = A \o B
  BY DEF Trailer
<1>5. ASSUME NEW i \in 1 .. n
      PROVE  A[2 * i - 1] = ranges_[i].offset /\ A[2 * i] = ranges_[i].length
  <2>1. /\ 2 * i - 1 \in 1 .. 2 * n /\ ((2 * i - 1) + 1) \div 2 = i /\ (2 * i - 1) % 2 = 1
        /\ 2 * i \in 1 .. 2 * n /\ (2 * i + 1) \div 2 = i /\ (2 * i) % 2 = 0
    BY <1>1
  <2> QED  BY <2>1
<1> HIDE DEF A, B
<1>6. /\ Len(Trailer) = 2 * n + 2 /\ DOMAIN Trailer = 1 .. 2 * n + 2
      /\ \A k \in 1 .. 2 * n : Trailer[k] = A[k]
      /\ Trailer[2 * n + 1] = n /\ Trailer[2 * n + 2] = kContainerMagic
  <2>1. /\ A \o B \in Seq(Nat) /\ Len(A \o B) = Len(A) + Len(B)
        /\ \A k \in 1 .. Len(A) + Len(B) :
              (A \o B)[k] = IF k <= Len(A) THEN A[k] ELSE B[k - Len(A)]
    BY <1>2, <1>3, ConcatProperties
  <2>2. Len(Trailer) = 2 * n + 2 /\ DOMAIN Trailer = 1 .. 2 * n + 2
    BY <1>1, <1>3, <1>4, <2>1
  <2>3. ASSUME NEW k \in 1 .. 2 * n + 2
        PROVE  Trailer[k] = IF k <= 2 * n THEN A[k] ELSE B[k - 2 * n]
    BY <1>1, <1>3, <1>4, <2>1
  <2>4. B[1] = n /\ B[2] = kContainerMagic
    BY DEF B
  <2>5. (2 * n + 1) - 2 * n = 1 /\ (2 * n + 2) - 2 * n = 2
    BY <1>1
  <2>6. Trailer[2 * n + 1] = B[1] /\ Trailer[2 * n + 2] = B[2]
    BY <1>1, <2>3, <2>5
  <2> QED  BY <1>1, <2>2, <2>3, <2>4, <2>6
<1>7. ASSUME NEW i \in 1 .. n
      PROVE  Trailer[2 * i - 1] = ranges_[i].offset /\ Trailer[2 * i] = ranges_[i].length
  <2>1. 2 * i - 1 \in 1 .. 2 * n /\ 2 * i \in 1 .. 2 * n
    BY <1>1
  <2> QED  BY <1>5, <1>6, <2>1
<1> QED  BY <1>6, <1>7 DEF IsTrailer
-----------------------------------------------------------------------------
(* What the writer has in its stream.                                      *)

\* The archive of two chunks that may have been there before.
OldChunks == << [offset |-> 8, length |-> 1], [offset |-> 9, length |-> 2] >>

OldStream ==
    PutFrame(PutFrame(PutWords(EmptyFile, << kContainerMagic >>), -1, 1), -2, 2)

OldArchive == PutWords(OldStream, << 8, 1, 9, 2, 2, kContainerMagic >>)

LEMMA OldIsSealed == Sealed(OldArchive, OldChunks, 11, << -1, -2 >>)
<1> DEFINE f == PutWords(EmptyFile, << kContainerMagic >>)
           g == PutFrame(f, -1, 1)
           h == PutFrame(g, -2, 2)
           none == << >>
           one == << [offset |-> 8, length |-> 1] >>
           id == << -1 >>
           ids == << -1, -2 >>
           ws == << 8, 1, 9, 2, 2, kContainerMagic >>
<1>1. Unfinished(f, none, 8, none)
  BY MagicFirst DEF kMagicLen
<1>2. Unfinished(g, one, 9, id)
  <2>1. /\ DOMAIN id = 1 .. Len(none) + 1 /\ id[Len(none) + 1] = -1
        /\ \A i \in 1 .. Len(none) : id[i] = none[i]
    OBVIOUS
  <2>2. Append(none, [offset |-> 8, length |-> 1]) = one /\ 8 + 1 = 9
    OBVIOUS
  <2> HIDE DEF f, none, id, one
  <2>3. Unfinished(g, Append(none, [offset |-> 8, length |-> 1]), 8 + 1, id)
    BY <1>1, <2>1, ChunkAppended
  <2> QED  BY <2>2, <2>3
<1>3. Unfinished(h, OldChunks, 11, ids)
  <2>1. Len(one) = 1
    OBVIOUS
  <2>2. /\ DOMAIN ids = 1 .. Len(one) + 1 /\ ids[Len(one) + 1] = -2
        /\ \A i \in 1 .. Len(one) : ids[i] = id[i]
    <3>1. DOMAIN ids = 1 .. 2 /\ ids[2] = -2 /\ ids[1] = -1 /\ id[1] = -1
      OBVIOUS
    <3> HIDE DEF ids, id, one
    <3> QED  BY <2>1, <3>1
  <2>3. Append(one, [offset |-> 9, length |-> 2]) = OldChunks /\ 9 + 2 = 11
    <3> DEFINE a == [offset |-> 8, length |-> 1]
               b == [offset |-> 9, length |-> 2]
    <3>1. one = << a >> /\ OldChunks = << a, b >>
      BY DEF OldChunks
    <3> HIDE DEF a, b, one
    <3>2. << a >> \in Seq({a, b}) /\ b \in {a, b} /\ << a, b >> \in Seq({a, b})
      OBVIOUS
    <3>3. /\ Append(<< a >>, b) \in Seq({a, b}) /\ Len(Append(<< a >>, b)) = 2
          /\ \A i \in 1 .. 2 : Append(<< a >>, b)[i] = << a, b >>[i]
      <4>1. /\ Append(<< a >>, b) \in Seq({a, b}) /\ Len(Append(<< a >>, b)) = 1 + 1
            /\ Append(<< a >>, b)[1] = a /\ Append(<< a >>, b)[1 + 1] = b
        OBVIOUS
      <4> QED  BY <4>1
    <3>4. Append(<< a >>, b) = << a, b >>
      <4> DEFINE x == Append(<< a >>, b)
                 y == << a, b >>
      <4>1. Len(y) = 2
        OBVIOUS
      <4> HIDE DEF x, y
      <4> QED  BY <3>2, <3>3, <4>1, SeqEqual DEF x, y
    <3>5. Append(one, b) = OldChunks
      BY <3>1, <3>4
    <3> QED  BY <3>5 DEF b
  <2> HIDE DEF g, one, id, ids
  <2>4. 2 \in Nat \ {0}
    OBVIOUS
  <2>5. Unfinished(h, Append(one, [offset |-> 9, length |-> 2]), 9 + 2, ids)
    BY <1>2, <2>2, <2>4, ChunkAppended
  <2> QED  BY <2>3, <2>5
<1> HIDE DEF h
<1>4. IsTrailer(ws, OldChunks) /\ Len(OldChunks) = 2
  <2>1. Len(OldChunks) = 2 /\ DOMAIN ws = 1 .. 6 /\ Len(ws) = 6
    BY DEF OldChunks
  <2>2. /\ ws[1] = OldChunks[1].offset /\ ws[2] = OldChunks[1].length
        /\ ws[3] = OldChunks[2].offset /\ ws[4] = OldChunks[2].length
        /\ ws[5] = 2 /\ ws[6] = kContainerMagic
    BY DEF OldChunks
  <2> HIDE DEF ws
  <2>3. \A i \in 1 .. 2 : ws[2 * i - 1] = OldChunks[i].offset /\ ws[2 * i] = OldChunks[i].length
    <3>1. \A i \in 1 .. 2 : i = 1 \/ i = 2
      OBVIOUS
    <3>2. 2 * 1 - 1 = 1 /\ 2 * 1 = 2 /\ 2 * 2 - 1 = 3 /\ 2 * 2 = 4
      OBVIOUS
    <3> QED  BY <2>2, <3>1, <3>2
  <2>4. 2 * 2 + 2 = 6 /\ 2 * 2 + 1 = 5
    OBVIOUS
  <2> QED  BY <2>1, <2>2, <2>3, <2>4 DEF IsTrailer
<1>5. 11 + 16 * Len(OldChunks) + 16 < kContainerMagic /\ Len(OldChunks) > 0
  BY <1>4, SizesAssumption, ContainerAssumption
<1>6. Sealed(PutWords(h, ws), OldChunks, 11, << -1, -2 >>)
  BY <1>3, <1>4, <1>5, TrailerSeals
<1> QED  BY <1>6 DEF OldArchive, OldStream, h

\* The longest frame that the sizes allow for.
Longest == CHOOSE m \in 0 .. kContainerMagic :
              /\ \A len \in FrameLengths : len <= m
              /\ kMagicLen + MaxChunks * (m + 16) + 16 < kContainerMagic

LEMMA LongestIs ==
    /\ Longest \in Nat /\ \A len \in FrameLengths : len <= Longest
    /\ 8 + MaxChunks * (Longest + 16) + 16 < kContainerMagic
<1>1. /\ Longest \in 0 .. kContainerMagic
      /\ \A len \in FrameLengths : len <= Longest
      /\ kMagicLen + MaxChunks * (Longest + 16) + 16 < kContainerMagic
  BY SizesAssumption DEF Longest
<1> QED  BY <1>1, ContainerAssumption DEF kMagicLen

\* An archive of n chunks is smaller than the magic.
LEMMA ArchiveIsSmall ==
    ASSUME NEW n \in 0 .. MaxChunks, NEW p \in Nat, p <= 8 + n * Longest
    PROVE  p + 16 * n + 16 < kContainerMagic
<1>1. /\ n \in Nat /\ MaxChunks \in Nat /\ MaxChunks - n \in Nat
      /\ Longest \in Nat /\ Longest + 16 \in Nat
  BY LongestIs, WriterAssumption
<1> DEFINE x == Longest + 16
           d == MaxChunks - n
<1>2. n * x = n * Longest + 16 * n
  BY <1>1
<1>3. MaxChunks * x = n * x + d * x
  BY <1>1
<1>4. d * x \in Nat /\ n * x \in Nat /\ n * Longest \in Nat
  BY <1>1
<1>5. 8 + MaxChunks * x + 16 < kContainerMagic
  BY LongestIs
<1> DEFINE a == n * Longest
           b == n * x
           c == d * x
           e == MaxChunks * x
<1>6. /\ a \in Nat /\ b \in Nat /\ c \in Nat /\ b = a + 16 * n /\ e = b + c
      /\ 8 + e + 16 < kContainerMagic /\ p <= 8 + a
  BY <1>2, <1>3, <1>4, <1>5
<1> HIDE DEF a, b, c, e
<1> QED  BY <1>1, <1>6, ContainerAssumption

Before == {"open", "threw", "aborted"}

\* Up to one chunk, with no range yet.
SingleInv ==
    /\ ~ is_open
    /\ num_chunks_ > 1 => phase \in {"threw", "aborted"}
    /\ num_chunks_ = 1 => first_ > 0
    /\ phase # "writingTrailer"
    /\ phase \notin Before => num_chunks_ = 1
    /\ stream = EmptyFile \/ stream = PutFrame(EmptyFile, 1, first_)
    /\ phase \in Before => stream = EmptyFile
    /\ phase \in {"writingFile", "done", "released"} => stream = PutFrame(EmptyFile, 1, first_)

\* Several chunks, with the frames where ranges_ says and the file as long as
\* pos_ says.
SeveralInv ==
    /\ Len(ranges_) = num_chunks_ /\ num_chunks_ > 1
    /\ phase # "writingFile"
    /\ pos_ <= 8 + num_chunks_ * Longest
    /\ phase \in Before => Unfinished(stream, ranges_, pos_, AllChunks)
    /\ phase \notin Before => Sealed(stream, ranges_, pos_, AllChunks)

StreamInv ==
    /\ ranges_ = << >> => SingleInv
    /\ ranges_ # << >> => SeveralInv

OnDisk == \E k \in 0 .. stream.size : disk = Prefix(stream, k)

\* What of it is on disk.
DiskInv ==
    /\ initial \in OldArchives \cup {NoFile}
    /\ finished_ <=> phase \in {"done", "aborted", "dropped", "released"}
    /\ is_open => phase \in {"open", "threw", "writingTrailer"}
    /\ disk \in {initial, NoFile} \/ OnDisk
    /\ is_open \/ phase = "writingFile" => OnDisk
    /\ ~ is_open /\ phase \in {"open", "threw"} => disk = initial
    /\ phase = "aborted" => disk \in {initial, NoFile}
    /\ phase \in {"done", "released"} /\ num_chunks_ > 1 => disk = stream

NumbersInv ==
    /\ is_open \in BOOLEAN /\ finished_ \in BOOLEAN
    /\ first_ \in FrameLengths \cup {0}
    /\ ranges_ \in Seq([offset : Nat, length : FrameLengths])
    /\ pos_ \in Nat
    /\ num_chunks_ \in 0 .. MaxChunks
    /\ phase \in {"open", "threw", "writingFile", "writingTrailer", "finishThrew",
                  "done", "aborted", "dropped", "released"}

WInv == NumbersInv /\ StreamInv /\ DiskInv
\* A file that no reader gets anything from.
Refused(f) == /\ Verdict(f) # "index" /\ Scan(f) = Unreadable
              /\ decompressSerial(f, 0, f.size) = Unreadable

\* One that a reader gets one frame from, and one with the given chunks.
SingleFrame(f, id) == /\ Verdict(f) = "plain" /\ Scan(f) = << id >>
                      /\ decompressSerial(f, 0, f.size) = id

WithChunks(f, ids) == /\ Verdict(f) = "index" /\ Count(f) = Len(ids) /\ Scan(f) = ids
                      /\ decompressSerial(f, 0, f.size) = Unreadable

\* What was there before can be read.
LEMMA OldReads ==
    ASSUME NEW f \in OldArchives
    PROVE  (SingleFrame(f, 0) \/ WithChunks(f, << -1, -2 >>)) /\ f.size \in Nat
<1>1. CASE f = PutFrame(EmptyFile, 0, 5)
  <2> DEFINE g == PutFrame(EmptyFile, 0, 5)
  <2>1. IsFile(g) /\ g.size = 5
    BY PlainIs
  <2> HIDE DEF g
  <2>2. Prefix(g, 5) = g
    BY <2>1, WholePrefix
  <2> USE DEF g
  <2>3. SingleFrame(Prefix(g, 5), 0)
    BY PlainReads DEF SingleFrame
  <2> HIDE DEF g
  <2> QED  BY <1>1, <2>1, <2>2, <2>3 DEF g
<1>2. CASE f = OldArchive
  <2> DEFINE ids == << -1, -2 >>
  <2>1. Len(OldChunks) = 2 /\ Len(ids) = 2
    BY DEF OldChunks
  <2>2. ids = [i \in 1 .. 2 |-> ids[i]] /\ \A i \in 1 .. 2 : ids[i] \in Int
    OBVIOUS
  <2>3. Sealed(f, OldChunks, 11, ids)
    BY <1>2, OldIsSealed
  <2> HIDE DEF ids
  <2>4. Verdict(f) = "index" /\ Count(f) = 2 /\ Scan(f) = ids
    <3>1. \A i \in 1 .. Len(OldChunks) : ids[i] \in Int
      BY <2>1, <2>2
    <3>2. /\ Verdict(f) = "index" /\ Count(f) = Len(OldChunks)
          /\ Scan(f) = [i \in 1 .. Len(OldChunks) |-> ids[i]]
      BY <2>3, <3>1, SealedReads
    <3> QED  BY <2>1, <2>2, <3>2
  <2>5. IsFile(f) /\ Laid(f, OldChunks, 11, ids) /\ f.size \in Nat
    BY <2>3 DEF Sealed, Laid, IsFile
  <2>6. decompressSerial(f, 0, f.size) = Unreadable
    BY <2>5, NoFrameFirst, WholePrefix
  <2> QED  BY <2>1, <2>4, <2>5, <2>6 DEF WithChunks, ids
<1> QED  BY <1>1, <1>2 DEF OldArchives, OldArchive, OldStream

\* The stream is a file.
LEMMA StreamIsFile ==
    ASSUME NumbersInv, StreamInv
    PROVE  IsFile(stream) /\ stream.size \in Nat
<1>1. CASE ranges_ = << >>
  <2>1. first_ \in Nat
    BY WriterAssumption DEF NumbersInv
  <2> QED  BY <1>1, <2>1, EmptyIsFile, PlainIs DEF StreamInv, SingleInv, IsFile
<1>2. CASE ranges_ # << >>
  BY <1>2 DEF StreamInv, SeveralInv, Unfinished, Sealed, Laid, IsFile
<1> QED  BY <1>1, <1>2

\* What a reader gets of the part of the stream that is on disk.
LEMMA PartReads ==
    ASSUME WInv, NEW k \in 0 .. stream.size
    PROVE  LET f == Prefix(stream, k)
           IN  /\ f.size \in Nat
               /\ \/ Refused(f)
                  \/ phase \notin Before /\ num_chunks_ = 1 /\ SingleFrame(f, 1)
                  \/ /\ phase \notin Before /\ num_chunks_ > 1
                     /\ f = stream /\ WithChunks(f, AllChunks)
<1> DEFINE f == Prefix(stream, k)
<1>a. /\ IsFile(stream) /\ stream.size \in Nat /\ k \in Nat /\ f.size = k
      /\ f.size \in Nat
  BY StreamIsFile DEF WInv, Prefix
<1>b. /\ DOMAIN f.frames \subseteq DOMAIN stream.frames
      /\ k = stream.size => f = stream
  BY <1>a, PrefixReads, WholePrefix
<1>c. f = Prefix(stream, k)
  OBVIOUS
<1> HIDE DEF f
<1> DEFINE Goal ==
             \/ Refused(f)
             \/ phase \notin Before /\ num_chunks_ = 1 /\ SingleFrame(f, 1)
             \/ /\ phase \notin Before /\ num_chunks_ > 1
                /\ f = stream /\ WithChunks(f, AllChunks)
<1> SUFFICES Goal
  BY <1>a DEF f
<1>1. CASE stream = EmptyFile
  <2>1. k = 0 /\ DOMAIN stream.frames = {}
    BY <1>1, <1>a DEF EmptyFile
  <2>2. DOMAIN f.frames = {}
    BY <1>b, <2>1
  <2>3. Verdict(f) # "index"
    <3>1. f.size \in Word /\ ~ (f.size >= 24)
      BY <1>a, <2>1, ContainerAssumption DEF Word
    <3> QED  BY <3>1, NoTrailer
  <2>4. Refused(f)
    BY <2>2, <2>3, Unserved DEF Refused, decompressSerial
  <2> QED  BY <2>4
<1>2. CASE ranges_ = << >> /\ stream # EmptyFile
  <2>1. /\ stream = PutFrame(EmptyFile, 1, first_) /\ phase \notin Before
        /\ num_chunks_ = 1
    BY <1>2 DEF WInv, StreamInv, SingleInv
  <2>2. first_ \in Nat /\ stream.size = first_
    BY <2>1, PlainIs, WriterAssumption DEF WInv, NumbersInv
  <2>3. SingleFrame(f, 1) \/ Refused(f)
    <3>1. k = first_ \/ k < first_
      BY <1>a, <2>2
    <3>2. 1 \in Int /\ k \in 0 .. first_ /\ f = Prefix(PutFrame(EmptyFile, 1, first_), k)
      BY <1>c, <2>1, <2>2
    <3> QED  BY <2>2, <3>1, <3>2, PlainReads DEF SingleFrame, Refused
  <2> QED  BY <2>1, <2>3
<1>3. CASE ranges_ # << >> /\ phase \in Before
  <2>1. /\ Unfinished(stream, ranges_, pos_, AllChunks) /\ Len(ranges_) = num_chunks_
        /\ pos_ <= 8 + num_chunks_ * Longest
    BY <1>3 DEF WInv, StreamInv, SeveralInv
  <2>2. pos_ \in Nat /\ stream.size = pos_ /\ num_chunks_ \in 0 .. MaxChunks
    BY <2>1 DEF Unfinished, WInv, NumbersInv
  <2>3. pos_ < WordModulus
    <3>1. pos_ + 16 * num_chunks_ + 16 < kContainerMagic
      BY <2>1, <2>2, ArchiveIsSmall
    <3> QED  BY <2>2, <3>1, ContainerAssumption, WriterAssumption
  <2>4. Verdict(f) # "index" /\ Scan(f) = Unreadable
    BY <1>a, <1>c, <2>1, <2>2, <2>3, UnfinishedIsRefused
  <2>5. decompressSerial(f, 0, f.size) = Unreadable
    BY <1>a, <1>c, <2>1, NoFrameFirst DEF Unfinished
  <2> QED  BY <2>4, <2>5 DEF Refused
<1>4. CASE ranges_ # << >> /\ phase \notin Before
  <2>1. /\ Sealed(stream, ranges_, pos_, AllChunks) /\ Len(ranges_) = num_chunks_
        /\ num_chunks_ > 1 /\ num_chunks_ \in Nat
    BY <1>4, WriterAssumption DEF WInv, StreamInv, SeveralInv, NumbersInv
  <2>2. decompressSerial(f, 0, f.size) = Unreadable
    BY <1>a, <1>c, <2>1, NoFrameFirst DEF Sealed
  <2>3. CASE k = stream.size
    <3>1. f = stream
      BY <1>b, <2>3
    <3>2. \A i \in 1 .. Len(ranges_) : AllChunks[i] \in Int
      BY <2>1 DEF AllChunks
    <3>3. Verdict(f) = "index" /\ Count(f) = num_chunks_
          /\ Scan(f) = [i \in 1 .. num_chunks_ |-> AllChunks[i]]
      BY <2>1, <3>1, <3>2, SealedReads
    <3>4. AllChunks = [i \in 1 .. num_chunks_ |-> AllChunks[i]] /\ Len(AllChunks) = num_chunks_
      BY <2>1 DEF AllChunks
    <3> QED  BY <1>4, <2>1, <2>2, <3>1, <3>3, <3>4 DEF WithChunks
  <2>4. CASE k # stream.size
    <3>1. k \in 0 .. stream.size - 1
      BY <1>a, <2>4
    <3>2. Verdict(f) # "index" /\ Scan(f) = Unreadable
      BY <1>c, <2>1, <3>1, CutOffIsRefused
    <3> QED  BY <2>2, <3>2 DEF Refused
  <2> QED  BY <2>3, <2>4
<1> QED  BY <1>1, <1>2, <1>3, <1>4
-----------------------------------------------------------------------------
(* The writer's steps.                                                     *)

LEMMA InitWInv == Init => WInv
<1> SUFFICES ASSUME Init PROVE WInv
  OBVIOUS
<1>1. NumbersInv
  <2>1. 0 \in 0 .. MaxChunks
    BY WriterAssumption
  <2>2. ranges_ = << >>
    BY DEF Init
  <2>3. ranges_ \in Seq([offset : Nat, length : FrameLengths])
    BY <2>2
  <2> QED  BY <2>1, <2>3 DEF Init, NumbersInv
<1>2. StreamInv
  BY DEF Init, StreamInv, SingleInv, Before
<1>3. DiskInv
  BY DEF Init, DiskInv
<1> QED  BY <1>1, <1>2, <1>3 DEF WInv

\* What a step writes to the stream before it is in the file.
LEMMA FlushedIs ==
    ASSUME WInv, NEW s, Flush(s)
    PROVE  \E k \in 0 .. s.size : disk' = Prefix(s, k)
<1> DEFINE written == IF is_open THEN disk.size ELSE 0
<1>1. written \in Nat
  <2>1. CASE is_open
    <3>1. PICK k \in 0 .. stream.size : disk = Prefix(stream, k)
      BY <2>1 DEF WInv, DiskInv, OnDisk
    <3>2. k \in Nat /\ disk.size = k
      BY <3>1, StreamIsFile DEF WInv, Prefix
    <3> QED  BY <2>1, <3>2
  <2> QED  BY <2>1
<1>2. PICK n \in written .. s.size : disk' = Prefix(s, n)
  BY DEF Flush
<1> HIDE DEF written
<1> QED  BY <1>1, <1>2

\* Append puts one more frame where ranges_ and pos_ say.
LEMMA ChunkWritten ==
    ASSUME WInv, NEW len \in FrameLengths, WriteChunk(len), phase' \in {"open", "threw"}
    PROVE  WInv'
<1>1. /\ phase = "open" /\ num_chunks_ \in Nat /\ 1 <= num_chunks_
      /\ num_chunks_' = num_chunks_ + 1 /\ num_chunks_' \in 0 .. MaxChunks
      /\ len \in Nat \ {0} /\ len <= Longest /\ Longest \in Nat
  BY WriterAssumption, LongestIs DEF WInv, NumbersInv, WriteChunk
<1> DEFINE n == num_chunks_
           started == Started(stream)
           r == StartedRanges
           p == StartedPos
           ids == AllChunks
           e == [offset |-> p, length |-> len]
<1>2. /\ Unfinished(started, r, p, ids) /\ Len(r) = n /\ p <= 8 + n * Longest
      /\ p \in Nat /\ r \in Seq([offset : Nat, length : FrameLengths])
  <2>1. CASE n = 1
    <3>1. ranges_ = << >>
      BY <1>1, <2>1 DEF WInv, StreamInv, SeveralInv
    <3>2. stream = EmptyFile /\ first_ > 0 /\ first_ \in FrameLengths
      BY <1>1, <2>1, <3>1 DEF WInv, StreamInv, SingleInv, NumbersInv, Before
    <3>3. first_ \in Nat \ {0} /\ first_ <= Longest
      BY <3>2, WriterAssumption, LongestIs
    <3> DEFINE f == PutWords(EmptyFile, << kContainerMagic >>)
               none == << >>
               a == [offset |-> 8, length |-> first_]
    <3>4. started = PutFrame(f, 1, first_) /\ r = << a >> /\ p = 8 + first_
      BY <2>1, <3>2 DEF Started, StartedRanges, StartedPos, kMagicLen
    <3>5. Unfinished(f, none, 8, none)
      BY MagicFirst DEF kMagicLen
    <3>6. Len(none) = 0 /\ Append(none, a) = << a >>
      OBVIOUS
    <3>7. DOMAIN ids = 1 .. 1 /\ ids[1] = 1
      BY <2>1 DEF AllChunks
    <3>8. Unfinished(PutFrame(f, 1, first_), Append(none, a), 8 + first_, ids)
      <4>1. DOMAIN ids = 1 .. Len(none) + 1 /\ ids[Len(none) + 1] = 1
            /\ \A i \in 1 .. Len(none) : ids[i] = none[i]
        BY <3>6, <3>7
      <4> HIDE DEF f, none, ids
      <4> QED  BY <3>3, <3>5, <4>1, ChunkAppended
    <3>9. p <= 8 + n * Longest /\ p \in Nat
      BY <1>1, <2>1, <3>3, <3>4
    <3>10. Len(r) = n /\ r \in Seq([offset : Nat, length : FrameLengths])
      BY <2>1, <3>2, <3>4
    <3> HIDE DEF f, none, ids, started, r, p
    <3> QED  BY <3>4, <3>6, <3>8, <3>9, <3>10
  <2>2. CASE n # 1
    <3>1. n > 1
      BY <1>1, <2>2
    <3>2. ranges_ # << >>
      BY <1>1, <3>1 DEF WInv, StreamInv, SingleInv
    <3>3. /\ Unfinished(stream, ranges_, pos_, ids) /\ Len(ranges_) = n
          /\ pos_ <= 8 + n * Longest
      BY <1>1, <3>2 DEF WInv, StreamInv, SeveralInv, Before
    <3>4. started = stream /\ r = ranges_ /\ p = pos_
      BY <2>2 DEF Started, StartedRanges, StartedPos
    <3> QED  BY <3>3, <3>4 DEF WInv, NumbersInv
  <2> QED  BY <2>1, <2>2
<1> HIDE DEF started, r, p
<1>3. /\ stream' = PutFrame(started, n + 1, len) /\ ranges_' = Append(r, e)
      /\ pos_' = p + len /\ first_' = 0 /\ is_open' = TRUE
      /\ UNCHANGED << finished_, initial >>
  BY DEF WriteChunk, started, r, p
<1>4. /\ Len(ranges_') = n + 1 /\ ranges_' # << >>
      /\ ranges_' \in Seq([offset : Nat, length : FrameLengths])
  <2> DEFINE S == [offset : Nat, length : FrameLengths]
  <2>1. e \in S /\ r \in Seq(S) /\ ranges_' = Append(r, e)
    BY <1>2, <1>3
  <2> HIDE DEF S, e
  <2>2. Append(r, e) \in Seq(S) /\ Len(Append(r, e)) = Len(r) + 1
    BY <2>1
  <2>3. Append(r, e) # << >>
    BY <2>1, AppendProperties
  <2> QED  BY <1>2, <2>1, <2>2, <2>3 DEF S
<1>5. Unfinished(stream', ranges_', pos_', AllChunks')
  <2> DEFINE more == AllChunks'
  <2>1. /\ DOMAIN more = 1 .. Len(r) + 1 /\ more[Len(r) + 1] = n + 1
        /\ \A i \in 1 .. Len(r) : more[i] = ids[i]
    BY <1>1, <1>2 DEF AllChunks
  <2> HIDE DEF more, ids, e
  <2>2. Unfinished(PutFrame(started, n + 1, len), Append(r, [offset |-> p, length |-> len]),
                   p + len, more)
    BY <1>1, <1>2, <2>1, ChunkAppended
  <2> QED  BY <1>3, <2>2 DEF more, e
<1>6. pos_' \in Nat /\ pos_' <= 8 + num_chunks_' * Longest
  <2>1. (n + 1) * Longest = n * Longest + Longest
    BY <1>1
  <2>2. n * Longest \in Nat
    BY <1>1
  <2> DEFINE a == n * Longest
  <2>3. p + len <= 8 + (a + Longest) /\ p + len \in Nat
    <3>1. a \in Nat /\ p <= 8 + a /\ p \in Nat /\ len \in Nat /\ len <= Longest /\ Longest \in Nat
      BY <1>1, <1>2, <2>2
    <3> HIDE DEF a
    <3> QED  BY <3>1
  <2> QED  BY <1>1, <1>3, <2>1, <2>3
<1>7. NumbersInv'
  BY <1>1, <1>3, <1>4, <1>6 DEF WInv, NumbersInv
<1>8. StreamInv'
  BY <1>1, <1>4, <1>5, <1>6 DEF StreamInv, SeveralInv, Before
<1>9. OnDisk'
  <2>1. Flush(stream')
    BY DEF WriteChunk
  <2> QED  BY <2>1, FlushedIs DEF OnDisk
<1>10. DiskInv'
  BY <1>1, <1>3, <1>9 DEF WInv, DiskInv
<1> QED  BY <1>7, <1>8, <1>10 DEF WInv

\* Finish of a single chunk: the frame is all there is.
LEMMA FileWritten == WInv /\ (WriteFile \/ WriteFileClosed) => WInv'
<1> SUFFICES ASSUME WInv, WriteFile \/ WriteFileClosed PROVE WInv'
  OBVIOUS
<1>1. num_chunks_ = 1 /\ ranges_ = << >> /\ ~ is_open
  <2>1. num_chunks_ = 1 \/ phase = "writingFile"
    BY DEF WriteFile, WriteFileClosed
  <2>2. ~ (1 > 1)
    OBVIOUS
  <2>3. ranges_ = << >>
    BY <2>1, <2>2 DEF WInv, StreamInv, SeveralInv
  <2> QED  BY <2>1, <2>3 DEF WInv, StreamInv, SingleInv, Before
<1>2. CASE WriteFile
  <2>1. OnDisk'
    <3>1. Flush(stream')
      BY <1>2 DEF WriteFile
    <3> QED  BY <3>1, FlushedIs DEF OnDisk
  <2>2. NumbersInv' /\ StreamInv'
    BY <1>1, <1>2 DEF WriteFile, WInv, NumbersInv, StreamInv, SingleInv, Before
  <2>3. DiskInv'
    BY <1>1, <1>2, <2>1 DEF WriteFile, WInv, DiskInv
  <2> QED  BY <2>2, <2>3 DEF WInv
<1>3. CASE WriteFileClosed
  <2>1. OnDisk'
    <3>1. OnDisk
      BY <1>3 DEF WriteFileClosed, WInv, DiskInv
    <3>2. disk.size \in Nat
      BY <3>1, StreamIsFile DEF WInv, OnDisk, Prefix
    <3>3. stream' = stream
          /\ \E k \in disk.size .. stream.size : disk' = Prefix(stream, k)
      BY <1>3 DEF WriteFileClosed
    <3>4. \E k \in 0 .. stream.size : disk' = Prefix(stream, k)
      BY <3>2, <3>3
    <3> QED  BY <3>3, <3>4 DEF OnDisk
  <2>2. NumbersInv' /\ StreamInv'
    BY <1>1, <1>3 DEF WriteFileClosed, WInv, NumbersInv, StreamInv, SingleInv, Before
  <2>3. DiskInv'
    BY <1>1, <1>3, <2>1 DEF WriteFileClosed, WInv, DiskInv
  <2> QED  BY <2>2, <2>3 DEF WInv
<1> QED  BY <1>2, <1>3

\* Finish of several chunks: the trailer seals the archive.
LEMMA TrailerWritten == WInv /\ (WriteTrailer \/ TrailerClosed \/ TrailerFails) => WInv'
<1> SUFFICES ASSUME WInv, WriteTrailer \/ TrailerClosed \/ TrailerFails PROVE WInv'
  OBVIOUS
<1>1. ranges_ # << >> /\ num_chunks_ > 1
  BY WriterAssumption
     DEF WriteTrailer, TrailerClosed, TrailerFails, WInv, NumbersInv, StreamInv, SingleInv,
         SeveralInv
<1>2. CASE WriteTrailer
  <2>1. OnDisk'
    <3>1. Flush(stream')
      BY <1>2 DEF WriteTrailer
    <3> QED  BY <3>1, FlushedIs DEF OnDisk
  <2>2. Sealed(PutWords(stream, Trailer), ranges_, pos_, AllChunks)
    <3>1. /\ Unfinished(stream, ranges_, pos_, AllChunks) /\ Len(ranges_) = num_chunks_
          /\ pos_ <= 8 + num_chunks_ * Longest
      BY <1>1, <1>2 DEF WriteTrailer, WInv, StreamInv, SeveralInv, Before
    <3>2. pos_ + 16 * Len(ranges_) + 16 < kContainerMagic
      BY <3>1, ArchiveIsSmall DEF WInv, NumbersInv
    <3>3. IsTrailer(Trailer, ranges_)
      BY <3>1, TrailerIs DEF Unfinished, Laid
    <3>4. Len(ranges_) > 0
      BY <1>1, <3>1, WriterAssumption DEF WInv, NumbersInv
    <3> QED  BY <3>1, <3>2, <3>3, <3>4, TrailerSeals
  <2>3. NumbersInv'
    BY <1>2 DEF WriteTrailer, WInv, NumbersInv
  <2>4. StreamInv'
    <3>1. stream' = PutWords(stream, Trailer) /\ phase' = "writingTrailer"
          /\ UNCHANGED << ranges_, pos_, num_chunks_ >>
      BY <1>2 DEF WriteTrailer
    <3>2. AllChunks' = AllChunks
      BY <3>1 DEF AllChunks
    <3> QED  BY <1>1, <2>2, <3>1, <3>2 DEF WInv, StreamInv, SeveralInv, Before
  <2>5. DiskInv'
    BY <1>2, <2>1 DEF WriteTrailer, WInv, DiskInv
  <2> QED  BY <2>3, <2>4, <2>5 DEF WInv
<1>3. CASE TrailerClosed \/ TrailerFails
  <2>1. /\ UNCHANGED << stream, first_, ranges_, pos_, num_chunks_, initial >>
        /\ is_open' = FALSE /\ phase = "writingTrailer"
    BY <1>3 DEF TrailerClosed, TrailerFails
  <2>2. OnDisk'
    <3>1. CASE TrailerClosed
      <4>1. disk' = Prefix(stream, stream.size) /\ stream.size \in 0 .. stream.size
        BY <3>1, StreamIsFile, WholePrefix DEF TrailerClosed, WInv
      <4> QED  BY <2>1, <4>1 DEF OnDisk
    <3>2. CASE TrailerFails
      <4>1. \E k \in 0 .. stream.size : disk' = Prefix(stream, k)
        BY <3>2, FlushedIs DEF TrailerFails
      <4> QED  BY <2>1, <4>1 DEF OnDisk
    <3> QED  BY <1>3, <3>1, <3>2
  <2>3. NumbersInv'
    BY <1>3 DEF TrailerClosed, TrailerFails, WInv, NumbersInv
  <2>4. AllChunks' = AllChunks
    BY <2>1 DEF AllChunks
  <2>5. StreamInv'
    BY <1>1, <1>3, <2>1, <2>4
       DEF TrailerClosed, TrailerFails, WInv, StreamInv, SeveralInv, Before
  <2>6. DiskInv'
    BY <1>3, <2>1, <2>2 DEF TrailerClosed, TrailerFails, WInv, DiskInv
  <2> QED  BY <2>3, <2>5, <2>6 DEF WInv
<1> QED  BY <1>2, <1>3

\* The steps that write nothing.
LEMMA NothingWritten ==
    ASSUME WInv, \/ \E len \in FrameLengths : AppendFirst(len)
                 \/ AppendOpenFails \/ FinishEmpty \/ WriteFileOpenFails \/ WriteFileFails
                 \/ Destroy \/ UNCHANGED vars
    PROVE  WInv'
<1>1. UNCHANGED << stream, ranges_, pos_, initial >>
  BY DEF AppendFirst, AppendOpenFails, FinishEmpty, WriteFileOpenFails, WriteFileFails,
         Destroy, vars
<1>2. num_chunks_' = num_chunks_ => AllChunks' = AllChunks
  BY DEF AllChunks
<1>3. disk' = disk => (OnDisk <=> OnDisk')
  <2>1. stream' = stream
    BY <1>1
  <2>2. ASSUME disk' = disk, OnDisk PROVE OnDisk'
    <3>1. PICK k \in 0 .. stream.size : disk = Prefix(stream, k)
      BY <2>2 DEF OnDisk
    <3>2. k \in 0 .. stream'.size /\ disk' = Prefix(stream', k)
      BY <2>1, <2>2, <3>1
    <3> QED  BY <3>2 DEF OnDisk
  <2>3. ASSUME disk' = disk, OnDisk' PROVE OnDisk
    <3>1. PICK k \in 0 .. stream'.size : disk' = Prefix(stream', k)
      BY <2>3 DEF OnDisk
    <3>2. k \in 0 .. stream.size /\ disk = Prefix(stream, k)
      BY <2>1, <2>3, <3>1
    <3> QED  BY <3>2 DEF OnDisk
  <2> QED  BY <2>2, <2>3
<1>4. NumbersInv'
  <2>1. /\ num_chunks_' \in 0 .. MaxChunks
        /\ first_' \in FrameLengths \cup {0}
        /\ is_open' \in BOOLEAN /\ finished_' \in BOOLEAN
        /\ phase' \in {"open", "threw", "writingFile", "writingTrailer", "finishThrew",
                      "done", "aborted", "dropped", "released"}
    <3>1. 1 \in 0 .. MaxChunks
      BY WriterAssumption
    <3>2. CASE \E len \in FrameLengths : AppendFirst(len)
      BY <3>1, <3>2 DEF AppendFirst, WInv, NumbersInv
    <3>3. CASE AppendOpenFails
      <4>1. 2 \in 0 .. MaxChunks
        BY <3>3, WriterAssumption DEF AppendOpenFails
      <4> QED  BY <3>3, <4>1 DEF AppendOpenFails, WInv, NumbersInv
    <3>4. CASE FinishEmpty \/ WriteFileOpenFails \/ WriteFileFails
      BY <3>4 DEF FinishEmpty, WriteFileOpenFails, WriteFileFails, WInv, NumbersInv
    <3>5. CASE Destroy
      BY <3>5 DEF Destroy, WInv, NumbersInv
    <3>6. CASE UNCHANGED vars
      BY <3>6 DEF vars, WInv, NumbersInv
    <3> QED  BY <3>2, <3>3, <3>4, <3>5, <3>6
  <2>2. ranges_' = ranges_ /\ pos_' = pos_
    BY <1>1
  <2> QED  BY <2>1, <2>2 DEF WInv, NumbersInv
<1>5. CASE \E len \in FrameLengths : AppendFirst(len)
  <2>1. PICK len \in FrameLengths : AppendFirst(len)
    BY <1>5
  <2>2. len > 0
    BY WriterAssumption
  <2>3. ranges_ = << >>
    BY <2>1 DEF AppendFirst, WInv, StreamInv, SeveralInv
  <2>4. StreamInv'
    BY <1>1, <2>1, <2>2, <2>3 DEF AppendFirst, WInv, StreamInv, SingleInv, Before
  <2>5. DiskInv'
    BY <1>1, <1>3, <2>1 DEF AppendFirst, WInv, DiskInv
  <2> QED  BY <1>4, <2>4, <2>5 DEF WInv
<1>6. CASE AppendOpenFails
  <2>1. ranges_ = << >>
    BY <1>6 DEF AppendOpenFails, WInv, StreamInv, SeveralInv
  <2>2. StreamInv'
    BY <1>1, <1>6, <2>1 DEF AppendOpenFails, WInv, StreamInv, SingleInv, Before
  <2>3. DiskInv'
    BY <1>1, <1>3, <1>6, <2>1 DEF AppendOpenFails, WInv, DiskInv, StreamInv, SingleInv
  <2> QED  BY <1>4, <2>2, <2>3 DEF WInv
<1>7. CASE FinishEmpty \/ WriteFileOpenFails \/ WriteFileFails
  <2>1. UNCHANGED << disk, is_open, first_, num_chunks_, finished_ >>
    BY <1>7 DEF FinishEmpty, WriteFileOpenFails, WriteFileFails
  <2>2. ranges_ = << >>
    BY <1>7 DEF FinishEmpty, WriteFileOpenFails, WriteFileFails, WInv, StreamInv, SeveralInv
  <2>3. StreamInv'
    BY <1>1, <1>7, <2>1, <2>2
       DEF FinishEmpty, WriteFileOpenFails, WriteFileFails, WInv, StreamInv, SingleInv, Before
  <2>4. DiskInv'
    BY <1>1, <1>3, <1>7, <2>1, <2>2
       DEF FinishEmpty, WriteFileOpenFails, WriteFileFails, WInv, DiskInv, StreamInv, SingleInv
  <2> QED  BY <1>4, <2>3, <2>4 DEF WInv
<1>8. CASE Destroy
  <2>1. UNCHANGED << first_, num_chunks_ >> /\ is_open' = FALSE /\ finished_' = TRUE
        /\ phase \in {"open", "threw", "finishThrew", "done"}
        /\ disk' = IF ~ finished_ /\ is_open THEN NoFile ELSE disk
    BY <1>8 DEF Destroy
  <2>2. phase' = CASE phase = "done" -> "released"
                   [] phase = "finishThrew" -> "dropped"
                   [] OTHER -> "aborted"
    BY <1>8 DEF Destroy
  <2>3. \/ phase = "done" /\ phase' = "released"
        \/ phase = "finishThrew" /\ phase' = "dropped"
        \/ phase \in {"open", "threw"} /\ phase' = "aborted"
    BY <2>1, <2>2
  <2>4. StreamInv'
    BY <1>1, <1>2, <2>1, <2>3 DEF WInv, StreamInv, SingleInv, SeveralInv, Before
  <2>5. DiskInv'
    BY <1>1, <1>3, <2>1, <2>3 DEF WInv, DiskInv
  <2> QED  BY <1>4, <2>4, <2>5 DEF WInv
<1>9. CASE UNCHANGED vars
  <2>1. StreamInv'
    BY <1>2, <1>9 DEF vars, WInv, StreamInv, SingleInv, SeveralInv
  <2>2. DiskInv'
    BY <1>3, <1>9 DEF vars, WInv, DiskInv
  <2> QED  BY <1>4, <2>1, <2>2 DEF WInv
<1> QED  BY <1>5, <1>6, <1>7, <1>8, <1>9

LEMMA NextWInv == WInv /\ [Next]_vars => WInv'
<1> SUFFICES ASSUME WInv, [Next]_vars PROVE WInv'
  OBVIOUS
<1>1. ASSUME NEW len \in FrameLengths, AppendNext(len) \/ AppendWriteFails(len)
      PROVE  WInv'
  BY <1>1, ChunkWritten DEF AppendNext, AppendWriteFails
<1> QED  BY <1>1, FileWritten, TrailerWritten, NothingWritten DEF Next
-----------------------------------------------------------------------------
(* What the writer promises.                                               *)

LEMMA SpecWInv == Spec => []WInv
BY InitWInv, NextWInv, PTL DEF Spec

\* What is on disk is what was there before, nothing, or a part of the stream.
LEMMA DiskReads ==
    ASSUME WInv
    PROVE  \/ disk = NoFile
           \/ /\ disk = initial /\ disk.size \in Nat
              /\ SingleFrame(disk, 0) \/ WithChunks(disk, << -1, -2 >>)
           \/ disk.size \in Nat /\ Refused(disk)
           \/ /\ disk.size \in Nat /\ phase \notin Before /\ num_chunks_ = 1
              /\ SingleFrame(disk, 1)
           \/ /\ disk.size \in Nat /\ phase \notin Before /\ num_chunks_ > 1
              /\ WithChunks(disk, AllChunks)
<1>1. CASE disk \in {initial, NoFile}
  BY <1>1, OldReads DEF WInv, DiskInv
<1>2. CASE OnDisk
  <2>1. PICK k \in 0 .. stream.size : disk = Prefix(stream, k)
    BY <1>2 DEF OnDisk
  <2> QED  BY <2>1, PartReads
<1> QED  BY <1>1, <1>2 DEF WInv, DiskInv

LEMMA OneChunk == num_chunks_ = 1 => AllChunks = << 1 >>
<1> SUFFICES ASSUME num_chunks_ = 1 PROVE AllChunks = << 1 >>
  OBVIOUS
<1>1. AllChunks = [i \in 1 .. 1 |-> i]
  BY DEF AllChunks
<1>2. 1 .. 1 = {1}
  OBVIOUS
<1> QED  BY <1>1, <1>2

\* The variables of ChunkedArchiveWriter keep their types, at every step of
\* Append, Finish and the destructor and whichever of their calls fails.
THEOREM WriterTypeOK == Spec => []TypeOK
<1>1. WInv => TypeOK
  BY DiskReads, StreamIsFile DEF WInv, NumbersInv, TypeOK
<1> QED  BY <1>1, SpecWInv, PTL

\* Abort leaves at the path what was there or nothing, for archives of every
\* length.
THEOREM WriterAbortLeavesNoPartialFile == Spec => []AbortLeavesNoPartialFile
<1>1. WInv => AbortLeavesNoPartialFile
  BY DEF WInv, DiskInv, AbortLeavesNoPartialFile
<1> QED  BY <1>1, SpecWInv, PTL

\* No prefix of what Append and Finish write reads as some of the chunks: for
\* every number of chunks, every frame size and every prefix.
THEOREM WriterNeverServesPart == Spec => []NeverServesPartOfTheTable
<1>1. WInv => NeverServesPartOfTheTable
  BY DiskReads, OneChunk
     DEF Refused, SingleFrame, WithChunks, Visible, NeverServesPartOfTheTable
<1> QED  BY <1>1, SpecWInv, PTL

\* A Finish of several chunks that returns has the stream on disk, and the
\* stream of any finished writer reads back as its chunks in their order, where
\* the absence of a file is not taken for a file.
THEOREM WriterFinishedReadsBack ==
    ASSUME \A s, w, f : NoFile # [size |-> s, words |-> w, frames |-> f]
    PROVE  Spec => []FinishedReadsBack
<1>1. ASSUME WInv, phase \in {"done", "released"}
      PROVE  Scan(stream) = AllChunks
  <2>a. phase \notin Before
    BY <1>1 DEF Before
  <2>1. CASE ranges_ = << >>
    <3>1. stream = PutFrame(EmptyFile, 1, first_) /\ num_chunks_ = 1
      BY <1>1, <2>a, <2>1 DEF WInv, StreamInv, SingleInv
    <3>2. first_ \in Nat /\ first_ \in 0 .. first_ /\ 1 \in Int
      BY <1>1, WriterAssumption DEF WInv, NumbersInv
    <3>3. IsFile(stream) /\ stream.size = first_
      BY <3>1, <3>2, PlainIs
    <3>4. Prefix(stream, first_) = stream
      BY <3>3, WholePrefix
    <3>5. Scan(Prefix(PutFrame(EmptyFile, 1, first_), first_)) = << 1 >>
      BY <3>2, PlainReads
    <3> QED  BY <3>1, <3>4, <3>5, OneChunk
  <2>2. CASE ranges_ # << >>
    <3>1. /\ Sealed(stream, ranges_, pos_, AllChunks) /\ Len(ranges_) = num_chunks_
          /\ num_chunks_ \in Nat
      BY <1>1, <2>a, <2>2, WriterAssumption DEF WInv, StreamInv, SeveralInv, NumbersInv
    <3>2. \A i \in 1 .. Len(ranges_) : AllChunks[i] \in Int
      BY <3>1 DEF AllChunks
    <3>3. Scan(stream) = [i \in 1 .. num_chunks_ |-> AllChunks[i]]
      BY <3>1, <3>2, SealedReads
    <3> QED  BY <3>1, <3>3 DEF AllChunks
  <2> QED  BY <2>1, <2>2
<1>2. ASSUME WInv PROVE stream # NoFile
  BY <1>2, StreamIsFile DEF WInv, IsFile
<1>3. WInv => FinishedReadsBack
  BY <1>1, <1>2 DEF FinishedReadsBack, Visible, WInv, DiskInv
<1> QED  BY <1>3, SpecWInv, PTL
-----------------------------------------------------------------------------
(* A scan of the path while it is written.                                 *)

\* The chunks of an archive that a scan has read so far.
ChunksOf(d) ==
    /\ d # NoFile /\ Verdict(d) = "index" /\ listed = 1 .. Count(d)
    /\ got = [i \in DOMAIN got |-> got[i]] /\ DOMAIN got \subseteq listed
    /\ \A i \in DOMAIN got :
          got[i] = DecompressChunkToBuffer(d, i) /\ got[i] # Unreadable
    /\ scan = "reading" => opened \in listed /\ range = ChunkRange(d, opened)

\* A plain frame has not been read before the scan returns; the chunks of an
\* archive are those on disk unless it was replaced.
ReadingInv ==
    \/ listed = {0} /\ DOMAIN got = {} /\ (scan = "reading" => opened = 0)
    \/ 0 \notin listed /\ (~ replaced => ChunksOf(disk))

\* By the time a reader has seen it, an archive has all its chunks.
ReturnedInv ==
    \/ got = [i \in {0} |-> 0] \/ got = << -1, -2 >>
    \/ phase \notin Before /\ num_chunks_ = 1 /\ got = [i \in {0} |-> 1]
    \/ phase \notin Before /\ num_chunks_ > 1 /\ got = AllChunks

SInv ==
    /\ replaced \in BOOLEAN
    /\ scan = "idle" => got = << >>
    /\ scan \in {"opening", "reading"} => ReadingInv
    /\ scan = "returned" /\ ~ replaced => ReturnedInv

\* After Append no chunk is added.
LEMMA ChunksSettled ==
    ASSUME [Next]_vars, phase \notin Before
    PROVE  phase' \notin Before /\ num_chunks_' = num_chunks_ /\ AllChunks' = AllChunks
<1>1. phase' \notin Before /\ num_chunks_' = num_chunks_
  <2>1. CASE Destroy
    <3>1. phase \in {"finishThrew", "done"} /\ num_chunks_' = num_chunks_
      BY <2>1 DEF Destroy, Before
    <3>2. phase' \in {"dropped", "released"}
      BY <2>1, <3>1 DEF Destroy
    <3> QED  BY <3>1, <3>2 DEF Before
  <2>2. CASE UNCHANGED vars
    BY <2>2 DEF vars
  <2>3. CASE WriteFileFails \/ WriteFileClosed \/ TrailerClosed \/ TrailerFails
    BY <2>3 DEF WriteFileFails, WriteFileClosed, TrailerClosed, TrailerFails, Before
  <2>4. phase # "open"
    BY DEF Before
  <2> QED
    BY <2>1, <2>2, <2>3, <2>4
       DEF Next, AppendFirst, AppendNext, AppendWriteFails, WriteChunk, AppendOpenFails,
           FinishEmpty, WriteFileOpenFails, WriteFile, WriteTrailer
<1> QED  BY <1>1 DEF AllChunks

\* A file with an index is one of the two archives.
LEMMA IndexedDisk ==
    ASSUME WInv, disk # NoFile, Verdict(disk) = "index"
    PROVE  /\ Count(disk) \in Nat
           /\ \/ Scan(disk) = << -1, -2 >>
              \/ phase \notin Before /\ num_chunks_ > 1 /\ Scan(disk) = AllChunks
<1>1. Len(<< -1, -2 >>) \in Nat
  OBVIOUS
<1>2. AllChunks \in Seq(Int)
  BY WriterAssumption DEF WInv, NumbersInv, AllChunks
<1>3. Len(AllChunks) \in Nat
  BY <1>2
<1>4. "index" # "plain"
  OBVIOUS
<1> QED  BY <1>1, <1>3, <1>4, DiskReads DEF Refused, SingleFrame, WithChunks

\* What is read of the path itself.
LEMMA PlainDisk ==
    ASSUME WInv, disk # NoFile,
           decompressSerial(disk, 0, disk.size) # Unreadable
    PROVE  \/ decompressSerial(disk, 0, disk.size) = 0
           \/ /\ phase \notin Before /\ num_chunks_ = 1
              /\ decompressSerial(disk, 0, disk.size) = 1
BY DiskReads DEF Refused, SingleFrame, WithChunks

\* The writer's steps leave what a scan has to it.
LEMMA WriterSInv ==
    ASSUME SInv, WInv, Next,
           replaced' = (\/ replaced
                        \/ /\ scan \in {"opening", "reading"} /\ 0 \notin listed
                           /\ disk' # disk),
           UNCHANGED << scan, listed, opened, range, got >>
    PROVE  SInv'
<1>1. replaced' \in BOOLEAN /\ (scan' = "idle" => got' = << >>)
  BY DEF SInv
<1>2. ASSUME scan' \in {"opening", "reading"} PROVE ReadingInv'
  <2>1. ReadingInv /\ scan \in {"opening", "reading"}
    BY <1>2 DEF SInv
  <2>2. CASE listed = {0} /\ DOMAIN got = {} /\ (scan = "reading" => opened = 0)
    BY <2>2 DEF ReadingInv
  <2>3. CASE 0 \notin listed /\ (~ replaced => ChunksOf(disk))
    <3>1. ASSUME ~ replaced' PROVE ChunksOf(disk)'
      <4>1. disk' = disk /\ ChunksOf(disk)
        BY <2>1, <2>3, <3>1
      <4> QED  BY <4>1 DEF ChunksOf
    <3> QED  BY <2>3, <3>1 DEF ReadingInv
  <2> QED  BY <2>1, <2>2, <2>3 DEF ReadingInv
<1>3. ASSUME scan' = "returned", ~ replaced' PROVE ReturnedInv'
  <2>1. ReturnedInv
    BY <1>3 DEF SInv
  <2> QED  BY <2>1, ChunksSettled DEF ReturnedInv
<1> QED  BY <1>1, <1>2, <1>3 DEF SInv

LEMMA GlobSInv == SInv /\ WInv /\ Glob /\ UNCHANGED vars => SInv'
<1> SUFFICES ASSUME SInv, WInv, Glob, UNCHANGED vars PROVE SInv'
  OBVIOUS
<1>0. disk' = disk
  BY DEF vars
<1>1. CASE Throw
  BY <1>1 DEF Throw, SInv
<1>2. CASE /\ Found # "corrupt" /\ listed' = Globbed /\ scan' = "opening"
           /\ UNCHANGED << opened, range, got, replaced >>
  <2>1. got' = << >> /\ DOMAIN got' = {}
    BY <1>2 DEF Glob, SInv
  <2>2. CASE Found = "index"
    <3>1. disk # NoFile /\ Verdict(disk) = "index"
      BY <2>2 DEF Found
    <3>2. listed' = 1 .. Count(disk)
      BY <1>2, <2>2, <3>1 DEF Globbed, ChunkCount
    <3>3. 0 \notin listed' /\ scan' # "reading"
      BY <1>2, <3>1, <3>2, IndexedDisk
    <3>4. got' = [i \in DOMAIN got' |-> got'[i]]
      BY <2>1
    <3>5. ChunksOf(disk)'
      BY <1>0, <2>1, <3>1, <3>2, <3>3, <3>4 DEF ChunksOf
    <3> QED  BY <1>2, <3>3, <3>5 DEF SInv, ReadingInv
  <2>3. CASE Found # "index"
    BY <1>2, <2>1, <2>3 DEF Globbed, SInv, ReadingInv
  <2> QED  BY <2>2, <2>3
<1> QED  BY <1>1, <1>2 DEF Glob

LEMMA ReadIndexSInv ==
    ASSUME SInv, WInv, NEW i \in 0 .. MaxChunks, ReadIndex(i), UNCHANGED vars
    PROVE  SInv'
<1>0. disk' = disk /\ scan = "opening" /\ ReadingInv /\ i \in listed
  BY DEF vars, ReadIndex, SInv
<1>1. CASE Throw
  BY <1>1 DEF Throw, SInv
<1>2. CASE /\ Indexed(i) /\ opened' = i
           /\ range' = (IF i = 0 THEN NoRange ELSE ChunkRange(disk, i))
           /\ scan' = "reading" /\ UNCHANGED << listed, got, replaced >>
  <2>1. CASE listed = {0} /\ DOMAIN got = {}
    BY <1>0, <1>2, <2>1 DEF SInv, ReadingInv
  <2>2. CASE 0 \notin listed /\ (~ replaced => ChunksOf(disk))
    <3>1. range' = ChunkRange(disk, i)
      BY <1>0, <1>2, <2>2
    <3>2. ~ replaced => ChunksOf(disk)'
      BY <1>0, <1>2, <2>2, <3>1 DEF ChunksOf
    <3> QED  BY <1>2, <2>2, <3>2 DEF SInv, ReadingInv
  <2> QED  BY <1>0, <2>1, <2>2 DEF ReadingInv
<1> QED  BY <1>1, <1>2 DEF ReadIndex

LEMMA ReadFrameSInv == SInv /\ WInv /\ ReadFrame /\ UNCHANGED vars => SInv'
<1> SUFFICES ASSUME SInv, WInv, ReadFrame, UNCHANGED vars PROVE SInv'
  OBVIOUS
<1>0. /\ UNCHANGED << disk, phase, num_chunks_ >>
      /\ scan = "reading" /\ ReadingInv
  BY DEF vars, ReadFrame, SInv
<1>1. CASE Throw
  BY <1>1 DEF Throw, SInv
<1>2. CASE /\ FrameRead # Unreadable
           /\ got' = [i \in {opened} \cup DOMAIN got |->
                         IF i = opened THEN FrameRead ELSE got[i]]
           /\ scan' = (IF DOMAIN got' = listed THEN "returned" ELSE "opening")
           /\ opened' = 0 /\ range' = NoRange
           /\ UNCHANGED << listed, replaced >>
  <2>1. CASE listed = {0} /\ DOMAIN got = {} /\ opened = 0
    <3>1. got' = [i \in {0} |-> FrameRead] /\ scan' = "returned"
      <4>1. {opened} \cup DOMAIN got = {0}
        BY <2>1
      <4>2. got' = [i \in {0} |-> FrameRead]
        BY <1>2, <2>1, <4>1
      <4> QED  BY <1>2, <2>1, <4>2
    <3>2. disk # NoFile /\ FrameRead = decompressSerial(disk, 0, disk.size)
      BY <1>2, <2>1 DEF FrameRead
    <3>3. ReturnedInv'
      BY <1>0, <1>2, <3>1, <3>2, PlainDisk DEF ReturnedInv
    <3> QED  BY <1>2, <3>1, <3>3 DEF SInv
  <2>2. CASE 0 \notin listed /\ (~ replaced => ChunksOf(disk))
    <3>1. ASSUME ~ replaced
          PROVE  /\ disk # NoFile /\ Verdict(disk) = "index" /\ listed = 1 .. Count(disk)
                 /\ DOMAIN got' = {opened} \cup DOMAIN got /\ DOMAIN got' \subseteq listed
                 /\ got' = [i \in DOMAIN got' |-> got'[i]]
                 /\ \A i \in DOMAIN got' :
                       got'[i] = DecompressChunkToBuffer(disk, i) /\ got'[i] # Unreadable
      <4>1. ChunksOf(disk) /\ opened \in listed /\ range = ChunkRange(disk, opened)
        BY <1>0, <2>2, <3>1 DEF ChunksOf
      <4>2. disk # NoFile /\ Verdict(disk) = "index" /\ listed = 1 .. Count(disk)
        BY <4>1 DEF ChunksOf
      <4>3. opened # 0
        BY <2>2, <4>1
      <4>4. FrameRead = DecompressChunkToBuffer(disk, opened)
        BY <4>1, <4>2, <4>3 DEF FrameRead, DecompressChunkToBuffer
      <4>5. DOMAIN got' = {opened} \cup DOMAIN got /\ got' = [i \in DOMAIN got' |-> got'[i]]
            /\ \A i \in DOMAIN got' : got'[i] = IF i = opened THEN FrameRead ELSE got[i]
        BY <1>2
      <4>6. DOMAIN got \subseteq listed
            /\ \A i \in DOMAIN got :
                  got[i] = DecompressChunkToBuffer(disk, i) /\ got[i] # Unreadable
        BY <4>1 DEF ChunksOf
      <4> QED  BY <1>2, <4>1, <4>2, <4>4, <4>5, <4>6
    <3>2. CASE scan' = "opening"
      <4>1. ~ replaced' => ChunksOf(disk)'
        BY <1>0, <1>2, <3>1, <3>2 DEF ChunksOf
      <4> QED  BY <1>2, <2>2, <3>2, <4>1 DEF SInv, ReadingInv
    <3>3. CASE scan' = "returned" /\ DOMAIN got' = listed
      <4>1. ASSUME ~ replaced PROVE ReturnedInv'
        <5>1. got' = [i \in 1 .. Count(disk) |-> DecompressChunkToBuffer(disk, i)]
          BY <3>1, <3>3, <4>1
        <5>2. \A i \in 1 .. Count(disk) : DecompressChunkToBuffer(disk, i) # Unreadable
          BY <3>1, <3>3, <4>1
        <5>3. Scan(disk) = got'
          <6> DEFINE chunks == [i \in 1 .. Count(disk) |-> DecompressChunkToBuffer(disk, i)]
          <6>1. Scan(disk) = IF \E i \in DOMAIN chunks : chunks[i] = Unreadable
                             THEN Unreadable ELSE chunks
            BY <3>1, <4>1 DEF Scan, ChunkCount
          <6>2. ~ \E i \in DOMAIN chunks : chunks[i] = Unreadable
            BY <5>2
          <6> QED  BY <5>1, <6>1, <6>2
        <5>4. AllChunks' = AllChunks
          BY <1>0 DEF AllChunks
        <5> QED  BY <1>0, <3>1, <4>1, <5>3, <5>4, IndexedDisk DEF ReturnedInv
      <4> QED  BY <1>2, <3>3, <4>1 DEF SInv
    <3> QED  BY <1>2, <3>2, <3>3
  <2> QED  BY <1>0, <2>1, <2>2 DEF ReadingInv
<1> QED  BY <1>1, <1>2 DEF ReadFrame

\* A scan that returns has every chunk of one archive, each in its place, or a
\* whole single frame: for every number of chunks and every interleaving of
\* Glob and the opens with the writer's steps and its crash.
THEOREM ScanOfOneArchive == ScanSpec => []ScanReturnsOneArchive
<1>1. ScanInit => WInv /\ SInv
  BY InitWInv DEF ScanInit, SInv
<1>2. WInv /\ SInv /\ [ScanNext]_<< vars, scanVars >> => WInv' /\ SInv'
  <2> SUFFICES ASSUME WInv, SInv, [ScanNext]_<< vars, scanVars >> PROVE WInv' /\ SInv'
    OBVIOUS
  <2>1. WInv'
    BY NextWInv DEF ScanNext
  <2>2. ASSUME UNCHANGED << vars, scanVars >> PROVE SInv'
    BY <2>2 DEF vars, scanVars, SInv, ReadingInv, ReturnedInv, ChunksOf, AllChunks
  <2>3. SInv'
    BY <2>2, WriterSInv, GlobSInv, ReadIndexSInv, ReadFrameSInv DEF ScanNext
  <2> QED  BY <2>1, <2>3
<1>3. SInv => ScanReturnsOneArchive
  BY DEF SInv, ReturnedInv, ScanReturnsOneArchive
<1> QED  BY <1>1, <1>2, <1>3, PTL DEF ScanSpec
=============================================================================
