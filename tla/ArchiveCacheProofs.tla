------------------------- MODULE ArchiveCacheProofs -------------------------
(***************************************************************************)
(* The shared buffers of the archive cache are never used after they are   *)
(* freed, and they are never stale when no two states of the file have the *)
(* same stamp: for any number of threads, paths, buffers and rewrites.     *)
(*                                                                         *)
(* The invariant has three parts.  BufferInv is about who holds which      *)
(* buffer and does not depend on stamps.  FreshInv relates versions; it is *)
(* where the assumption that stamps differ is used.  ShareInv is about who *)
(* shares a buffer, and needs the lock.                                    *)
(***************************************************************************)
EXTENDS ArchiveCache, TLAPS

InOpenFile == {"stated", "decompressing", "indexed"}

BufferInv == Types /\ LiveEntries /\ HandlesHold

\* The stamp a stat would report now belongs to the version in place.
StampIsCurrent ==
    IF exists
    THEN fileStamp \in Stamps /\ version > 0 /\ stamped[fileStamp] = version
    ELSE fileStamp = NoStamp

\* The stamp a running OpenFile holds still names the version its stat saw.
StatsRemembered ==
    \A t \in Threads : pc[t] \in InOpenFile =>
        /\ since[t] <= version
        /\ IF stamp[t] = NoStamp
           THEN since[t] = 0
           ELSE since[t] > 0 /\ stamped[stamp[t]] = since[t]

\* A cache entry's buffer is at least as new as the stamp beside it.
EntriesFresh ==
    \A k \in Keys : entryData[k] # NoBuf /\ entryStamp[k] # NoStamp =>
        /\ stamped[entryStamp[k]] > 0
        /\ stamped[entryStamp[k]] <= content[entryData[k]]

FreshInv == StampIsCurrent /\ StatsRemembered /\ EntriesFresh /\ NeverStale

\* The holder of the lock alone is between a miss and its return.
Decompressing == {"decompressing", "indexed"}

LockHeld == \A t \in Threads : pc[t] \in Decompressing => lock = t

\* Stamps of handles and entries were given to some version: a new state of
\* the file gets another one.
StampsGiven ==
    /\ \A t \in Threads :
          pc[t] = "open" => stamp[t] \in Stamps /\ stamped[stamp[t]] > 0
    /\ \A k \in Keys :
          entryData[k] # NoBuf => entryStamp[k] \in Stamps /\ stamped[entryStamp[k]] > 0

\* As long as no writer gets into a call, the call has the file's stamp, and
\* whoever missed is the only one to open that path in that state.
CallsAreCurrent ==
    /\ \A t \in Threads : pc[t] \in InOpenFile => stamp[t] = fileStamp
    /\ \A t, u \in Threads :
          ~ (/\ pc[t] \in Decompressing /\ pc[u] = "open"
             /\ key[t] = key[u] /\ stamp[t] = stamp[u])

\* The entry of a path leads to every handle on the file in its present state.
EntriesLead ==
    \A t \in Threads : pc[t] = "open" /\ stamp[t] = fileStamp =>
        entryData[key[t]] = buf[t] /\ entryStamp[key[t]] = fileStamp

BuffersShared ==
    \A t, u \in Threads :
        pc[t] = "open" /\ pc[u] = "open" /\ key[t] = key[u] /\ stamp[t] = stamp[u]
            => buf[t] = buf[u]

ShareInv ==
    /\ LockHeld
    /\ ~ disturbed => StampsGiven /\ CallsAreCurrent /\ EntriesLead /\ BuffersShared

-----------------------------------------------------------------------------
(* Who holds which buffer.                                                 *)

\* Nobody holds a buffer at first.
LEMMA InitBufferInv == Init => BufferInv
<1> SUFFICES ASSUME Init PROVE BufferInv
  OBVIOUS
<1> USE CacheAssumption DEF Init
<1>1. Types
  <2>1. /\ version \in Nat /\ chunks \in 0 .. MaxChunks
        /\ fileStamp \in Stamps \cup {NoStamp}
        /\ lock \in Threads \cup {NoThread}
        /\ indexed \in Nat /\ opens \in Nat
    OBVIOUS
  <2>2. /\ stamped \in [Stamps -> Nat]
        /\ entryData \in [Keys -> Bufs \cup {NoBuf}]
        /\ entryStamp \in [Keys -> Stamps \cup {NoStamp}]
        /\ content \in [Bufs -> Nat]
    OBVIOUS
  <2>3. /\ pc \in [Threads -> {"idle", "stated", "decompressing", "indexed", "open"}]
        /\ key \in [Threads -> Keys]
        /\ stamp \in [Threads -> Stamps \cup {NoStamp}]
        /\ buf \in [Threads -> Bufs \cup {NoBuf}]
        /\ since \in [Threads -> Nat]
    OBVIOUS
  <2>4. exists \in BOOLEAN /\ disturbed \in BOOLEAN
    BY Zenon
  <2> QED  BY <2>1, <2>2, <2>3, <2>4 DEF Types
<1>2. LiveEntries /\ HandlesHold
  BY DEF LiveEntries, HandlesHold
<1> QED  BY <1>1, <1>2 DEF BufferInv

\* A writer's step changes the file and its stamps, and no thread or buffer.
LEMMA WriterBufferInv ==
    ASSUME BufferInv, version' \in Nat, chunks' \in 0 .. MaxChunks,
           exists' \in BOOLEAN, disturbed' \in BOOLEAN,
           fileStamp' \in Stamps \cup {NoStamp}, stamped' \in [Stamps -> Nat],
           UNCHANGED << cacheVars, threadVars >>
    PROVE  BufferInv'
<1>1. Types'
  BY DEF BufferInv, Types, cacheVars, threadVars
<1>2. LiveEntries' /\ HandlesHold'
  BY DEF BufferInv, LiveEntries, Holders, HandlesHold, cacheVars, threadVars
<1> QED  BY <1>1, <1>2 DEF BufferInv

\* What the three kinds of write have in common.
LEMMA WriteShape ==
    ASSUME BufferInv,
           \/ \E n \in 1 .. MaxChunks : Replace(n) \/ EndInPlace(n)
           \/ BeginInPlace
    PROVE  /\ version' \in Nat /\ version' >= version
           /\ version' = version => exists
           /\ version' # version => version' > 0
           /\ chunks' \in 0 .. MaxChunks
           /\ exists' = TRUE /\ Restamp(version')
           /\ UNCHANGED << cacheVars, threadVars >>
<1>1. ASSUME NEW n \in 1 .. MaxChunks, Replace(n)
      PROVE  /\ version' = version + 1 /\ chunks' \in 0 .. MaxChunks
             /\ exists' = TRUE /\ Restamp(version')
             /\ UNCHANGED << cacheVars, threadVars >>
  BY <1>1, CacheAssumption DEF Replace
<1>2. ASSUME NEW n \in 1 .. MaxChunks, EndInPlace(n)
      PROVE  /\ version' = version /\ exists /\ chunks' \in 0 .. MaxChunks
             /\ exists' = TRUE /\ Restamp(version')
             /\ UNCHANGED << cacheVars, threadVars >>
  <2>1. version' = version /\ exists /\ exists' = exists /\ Restamp(version)
        /\ UNCHANGED << cacheVars, threadVars >>
    BY <1>2 DEF EndInPlace
  <2>2. exists' = TRUE
    BY <2>1 DEF BufferInv, Types
  <2> QED  BY <1>2, <2>1, <2>2, CacheAssumption DEF EndInPlace
<1>3. ASSUME BeginInPlace
      PROVE  /\ version' = version + 1 /\ chunks' \in 0 .. MaxChunks
             /\ exists' = TRUE /\ Restamp(version')
             /\ UNCHANGED << cacheVars, threadVars >>
  BY <1>3, CacheAssumption DEF BeginInPlace
<1>4. version \in Nat
  BY DEF BufferInv, Types
<1>5. ASSUME version' = version + 1
      PROVE  /\ version' \in Nat /\ version' >= version /\ version' > 0
             /\ version' # version
  BY <1>4, <1>5
<1>6. CASE \E n \in 1 .. MaxChunks : Replace(n)
  BY <1>1, <1>5, <1>6, Zenon
<1>7. CASE \E n \in 1 .. MaxChunks : EndInPlace(n)
  <2>1. version' = version => version' \in Nat /\ version' >= version
    BY <1>4
  <2> QED  BY <1>2, <1>7, <2>1, Zenon
<1>8. CASE BeginInPlace
  BY <1>3, <1>5, <1>8, Zenon
<1> QED  BY <1>6, <1>7, <1>8

\* Writing an archive touches no buffer.
LEMMA WriteBufferInv ==
    ASSUME BufferInv,
           \/ \E n \in 1 .. MaxChunks : Replace(n) \/ EndInPlace(n)
           \/ BeginInPlace
    PROVE  BufferInv'
<1>1. /\ version' \in Nat /\ chunks' \in 0 .. MaxChunks
      /\ exists' = TRUE /\ Restamp(version')
      /\ UNCHANGED << cacheVars, threadVars >>
  BY WriteShape
<1>2. fileStamp' \in Stamps \cup {NoStamp} /\ stamped' \in [Stamps -> Nat]
  BY <1>1 DEF Restamp, BufferInv, Types
<1>3. exists' \in BOOLEAN /\ disturbed' \in BOOLEAN
  BY <1>1, Zenon DEF Restamp, BufferInv, Types
<1> QED  BY <1>1, <1>2, <1>3, WriterBufferInv

\* Removing an archive touches no buffer.
LEMMA RemoveBufferInv ==
    ASSUME BufferInv, RemoveFile
    PROVE  BufferInv'
<1>1. exists' \in BOOLEAN /\ disturbed' \in BOOLEAN
  BY Zenon DEF RemoveFile, BufferInv, Types
<1>2. /\ version' \in Nat /\ chunks' \in 0 .. MaxChunks
      /\ fileStamp' \in Stamps \cup {NoStamp} /\ stamped' \in [Stamps -> Nat]
      /\ UNCHANGED << cacheVars, threadVars >>
  BY CacheAssumption DEF RemoveFile, BufferInv, Types
<1> QED  BY <1>1, <1>2, WriterBufferInv

\* A hit adds a holder to a buffer that has one.
LEMMA HitBufferInv ==
    ASSUME BufferInv, NEW t \in Threads, Hit(t)
    PROVE  BufferInv'
<1> USE CacheAssumption DEF BufferInv, Hit, IsHit, fileVars, cacheVars
<1>1. Types'
  BY DEF Types
<1>2. LiveEntries'
  <2> SUFFICES ASSUME NEW k \in Keys, entryData[k] # NoBuf
               PROVE  Holders(entryData[k])' # {}
    BY DEF LiveEntries
  <2>1. PICK u \in Threads : buf[u] = entryData[k]
    BY DEF LiveEntries, Holders
  <2>2. pc[u] = "open" /\ u # t
    BY <2>1 DEF HandlesHold
  <2>3. buf'[u] = entryData'[k]
    BY <2>1, <2>2 DEF Types
  <2> QED  BY <2>3 DEF Holders
<1>3. HandlesHold'
  BY DEF HandlesHold, Types
<1> QED  BY <1>1, <1>2, <1>3

\* Publishing takes a name that nothing refers to.
LEMMA PublishBufferInv ==
    ASSUME BufferInv, NEW t \in Threads, NEW b \in Bufs, Publish(t, b)
    PROVE  BufferInv'
<1> USE CacheAssumption DEF BufferInv, Publish, fileVars
<1>1. Types'
  BY DEF Types
<1>2. LiveEntries'
  <2> SUFFICES ASSUME NEW k \in Keys, entryData'[k] # NoBuf
               PROVE  Holders(entryData[k])' # {}
    BY DEF LiveEntries
  <2>1. CASE k = key[t]
    <3>1. entryData'[k] = b /\ buf'[t] = b
      BY <2>1 DEF Types
    <3> QED  BY <3>1 DEF Holders
  <2>2. CASE k # key[t]
    <3>1. entryData'[k] = entryData[k]
      BY <2>2 DEF Types
    <3>2. PICK u \in Threads : buf[u] = entryData[k]
      BY <3>1 DEF LiveEntries, Holders
    <3>3. pc[u] = "open" /\ u # t
      BY <3>1, <3>2 DEF HandlesHold
    <3>4. buf'[u] = entryData'[k]
      BY <3>1, <3>2, <3>3 DEF Types
    <3> QED  BY <3>4 DEF Holders
  <2> QED  BY <2>1, <2>2
<1>3. HandlesHold'
  BY DEF HandlesHold, Types
<1> QED  BY <1>1, <1>2, <1>3

\* Closing expires a weak reference only with the last handle.
LEMMA CloseBufferInv ==
    ASSUME BufferInv, NEW t \in Threads, Close(t)
    PROVE  BufferInv'
<1> USE CacheAssumption DEF BufferInv, Close, Forget, fileVars
<1>1. Types'
  BY DEF Types
<1>2. LiveEntries'
  <2> SUFFICES ASSUME NEW k \in Keys, entryData'[k] # NoBuf
               PROVE  Holders(entryData[k])' # {}
    BY DEF LiveEntries
  <2>1. /\ entryData'[k] = entryData[k]
        /\ ~ (entryData[k] = buf[t] /\ Holders(buf[t]) = {t})
    BY DEF Types
  <2>2. PICK u \in Threads : buf[u] = entryData[k] /\ u # t
    BY <2>1 DEF LiveEntries, Holders
  <2>3. buf'[u] = entryData'[k]
    BY <2>1, <2>2 DEF Types
  <2> QED  BY <2>3 DEF Holders
<1>3. HandlesHold'
  BY DEF HandlesHold, Types
<1> QED  BY <1>1, <1>2, <1>3

\* Every step keeps who holds what.
LEMMA NextBufferInv ==
    ASSUME BufferInv, [Next]_vars
    PROVE  BufferInv'
<1>1. ASSUME NEW t \in Threads,
             \/ \E k \in Keys : StatArchive(t, k)
             \/ Miss(t) \/ ReadIndex(t) \/ Fail(t)
      PROVE  BufferInv'
  <2> USE <1>1, CacheAssumption
      DEF StatArchive, Miss, ReadIndex, Fail, CannotRead, Forget, BufferInv, fileVars, cacheVars
  <2>1. Types'
    BY DEF Types
  <2>2. LiveEntries' /\ HandlesHold'
    BY DEF LiveEntries, Holders, HandlesHold, Types
  <2> QED  BY <2>1, <2>2
<1>2. CASE UNCHANGED vars
  BY <1>2 DEF vars, fileVars, cacheVars, threadVars, BufferInv, Types,
              LiveEntries, Holders, HandlesHold
<1> QED
  BY <1>1, <1>2, WriteBufferInv, RemoveBufferInv, HitBufferInv, PublishBufferInv,
     CloseBufferInv DEF Next

-----------------------------------------------------------------------------
(* Which version a buffer holds.                                           *)

\* The first stamp belongs to the first version.
LEMMA InitFreshInv == Init => FreshInv
BY CacheAssumption
   DEF Init, FreshInv, StampIsCurrent, StatsRemembered, EntriesFresh, NeverStale,
       InOpenFile

\* What a new state of the file does to the stamps: one that was never given
\* out gets the version of the new state, all others keep theirs.
LEMMA RestampFresh ==
    ASSUME StampsDiffer = TRUE, stamped \in [Stamps -> Nat], NEW v \in Nat, Restamp(v)
    PROVE  /\ fileStamp' \in Stamps
           /\ stamped'[fileStamp'] = v
           /\ \A s \in Stamps : stamped[s] > 0 => stamped'[s] = stamped[s]
BY DEF Restamp

\* A rewrite gets a stamp of its own, so older stamps keep naming older versions.
LEMMA WriteFreshInv ==
    ASSUME StampsDiffer = TRUE, BufferInv, FreshInv,
           \/ \E n \in 1 .. MaxChunks : Replace(n) \/ EndInPlace(n)
           \/ BeginInPlace
    PROVE  FreshInv'
<1>1. /\ version' \in Nat /\ version' >= version
      /\ version' = version => exists
      /\ version' # version => version' > 0
      /\ exists' = TRUE /\ Restamp(version')
      /\ UNCHANGED << cacheVars, threadVars >>
  BY WriteShape
<1>2. /\ fileStamp' \in Stamps
      /\ stamped'[fileStamp'] = version'
      /\ \A s \in Stamps : stamped[s] > 0 => stamped'[s] = stamped[s]
  BY <1>1, RestampFresh DEF BufferInv, Types
<1>3. version' > 0
  BY <1>1 DEF FreshInv, StampIsCurrent
<1>4. StampIsCurrent'
  BY <1>1, <1>2, <1>3 DEF StampIsCurrent
<1>5. StatsRemembered'
  BY <1>1, <1>2
     DEF FreshInv, StatsRemembered, InOpenFile, BufferInv, Types, cacheVars, threadVars
<1>6. EntriesFresh'
  BY <1>1, <1>2 DEF FreshInv, EntriesFresh, BufferInv, Types, cacheVars, threadVars
<1>7. NeverStale'
  BY <1>1 DEF FreshInv, NeverStale, cacheVars, threadVars
<1> QED  BY <1>4, <1>5, <1>6, <1>7 DEF FreshInv

\* A hit is served at least the version its own stat saw: its stamp and the
\* entry's are the same, and both still name the same version.
LEMMA HitFreshInv ==
    ASSUME BufferInv, FreshInv, NEW t \in Threads, Hit(t)
    PROVE  FreshInv'
<1> USE CacheAssumption DEF BufferInv, FreshInv, Hit, IsHit, fileVars, cacheVars
<1>1. StampIsCurrent' /\ StatsRemembered' /\ EntriesFresh'
  BY DEF StampIsCurrent, StatsRemembered, EntriesFresh, InOpenFile, Types
<1>2. content[entryData[key[t]]] >= since[t]
  <2>1. pc[t] \in InOpenFile /\ key[t] \in Keys
    BY DEF InOpenFile, Types
  <2>2. content[entryData[key[t]]] \in Nat /\ since[t] \in Nat
    BY <2>1 DEF Types
  <2>3. CASE stamp[t] = NoStamp
    BY <2>1, <2>2, <2>3 DEF StatsRemembered
  <2>4. CASE stamp[t] # NoStamp
    <3>1. stamped[stamp[t]] = since[t]
      BY <2>1, <2>4 DEF StatsRemembered
    <3>2. stamped[entryStamp[key[t]]] <= content[entryData[key[t]]]
      BY <2>1, <2>4 DEF EntriesFresh
    <3> QED  BY <3>1, <3>2
  <2> QED  BY <2>3, <2>4
<1>3. NeverStale'
  BY <1>2 DEF NeverStale, Types
<1> QED  BY <1>1, <1>3

\* What is published was read after the publisher's stat.
LEMMA PublishFreshInv ==
    ASSUME BufferInv, FreshInv, NEW t \in Threads, NEW b \in Bufs, Publish(t, b)
    PROVE  FreshInv'
<1> USE CacheAssumption DEF BufferInv, FreshInv, Publish, fileVars
<1>1. StampIsCurrent' /\ StatsRemembered'
  BY DEF StampIsCurrent, StatsRemembered, InOpenFile, Types
<1>2. \A u \in Threads : buf[u] # b
  BY DEF Holders
<1>3. \A k \in Keys : entryData[k] # b
  BY DEF LiveEntries
<1>4. version >= since[t] /\ (stamp[t] # NoStamp => stamped[stamp[t]] > 0
                                                    /\ stamped[stamp[t]] <= version)
  BY DEF StatsRemembered, InOpenFile, Types
<1>5. EntriesFresh'
  BY <1>3, <1>4 DEF EntriesFresh, Types
<1>6. NeverStale'
  BY <1>2, <1>4 DEF NeverStale, Types
<1> QED  BY <1>1, <1>5, <1>6

\* Closing a handle can only clear an entry.
LEMMA CloseFreshInv ==
    ASSUME BufferInv, FreshInv, NEW t \in Threads, Close(t)
    PROVE  FreshInv'
<1> USE CacheAssumption DEF BufferInv, FreshInv, Close, Forget, fileVars
<1>1. StampIsCurrent' /\ StatsRemembered'
  BY DEF StampIsCurrent, StatsRemembered, InOpenFile, Types
<1>2. EntriesFresh'
  BY DEF EntriesFresh, Types, HandlesHold
<1>3. NeverStale'
  <2> SUFFICES ASSUME NEW u \in Threads, pc'[u] = "open"
               PROVE  content'[buf'[u]] >= since'[u]
    BY DEF NeverStale
  <2>1. u # t /\ pc[u] = "open" /\ buf'[u] = buf[u] /\ since'[u] = since[u]
    BY DEF Types
  <2>2. content'[buf[u]] = content[buf[u]]
    BY <2>1 DEF Holders, HandlesHold, Types
  <2> QED  BY <2>1, <2>2 DEF NeverStale
<1> QED  BY <1>1, <1>2, <1>3

\* Every step keeps stamps and versions in order.
LEMMA NextFreshInv ==
    ASSUME StampsDiffer = TRUE, BufferInv, FreshInv, [Next]_vars
    PROVE  FreshInv'
<1>1. ASSUME RemoveFile PROVE FreshInv'
  BY <1>1, CacheAssumption
     DEF RemoveFile, FreshInv, StampIsCurrent, StatsRemembered, EntriesFresh,
         NeverStale, cacheVars, threadVars
<1>2. ASSUME NEW t \in Threads, NEW k \in Keys, StatArchive(t, k) PROVE FreshInv'
  <2> USE <1>2, CacheAssumption DEF StatArchive, BufferInv, FreshInv, fileVars, cacheVars
  <2>1. StatsRemembered'
    BY DEF StatsRemembered, StampIsCurrent, InOpenFile, Types
  <2>2. StampIsCurrent' /\ EntriesFresh'
    BY DEF StampIsCurrent, EntriesFresh
  <2>3. NeverStale'
    BY DEF NeverStale, Types
  <2> QED  BY <2>1, <2>2, <2>3
<1>3. ASSUME NEW t \in Threads, Miss(t) \/ ReadIndex(t) \/ Fail(t) PROVE FreshInv'
  <2> USE <1>3, CacheAssumption
      DEF Miss, ReadIndex, Fail, CannotRead, Forget, BufferInv, FreshInv, fileVars, cacheVars
  <2>1. StampIsCurrent' /\ StatsRemembered' /\ EntriesFresh'
    BY DEF StampIsCurrent, StatsRemembered, EntriesFresh, InOpenFile, Types
  <2>2. NeverStale'
    BY DEF NeverStale, Types
  <2> QED  BY <2>1, <2>2
<1>4. CASE UNCHANGED vars
  BY <1>4 DEF vars, fileVars, cacheVars, threadVars, FreshInv, StampIsCurrent,
              StatsRemembered, EntriesFresh, NeverStale
<1> QED
  BY <1>1, <1>2, <1>3, <1>4, WriteFreshInv, HitFreshInv, PublishFreshInv,
     CloseFreshInv DEF Next

-----------------------------------------------------------------------------
(* Who shares a buffer.                                                    *)

\* Nobody has opened anything at first.
LEMMA InitShareInv == Init => ShareInv
BY CacheAssumption
   DEF Init, ShareInv, LockHeld, StampsGiven, CallsAreCurrent, EntriesLead,
       BuffersShared, InOpenFile, Decompressing

\* A write that no call sees gives the file a stamp that no handle has.
LEMMA WriteShareInv ==
    ASSUME StampsDiffer = TRUE, BufferInv, ShareInv,
           \/ \E n \in 1 .. MaxChunks : Replace(n) \/ EndInPlace(n)
           \/ BeginInPlace
    PROVE  ShareInv'
<1>1. version' \in Nat /\ Restamp(version') /\ UNCHANGED << cacheVars, threadVars >>
  BY WriteShape
<1>2. /\ fileStamp' \in Stamps /\ stamped[fileStamp'] = 0
      /\ \A s \in Stamps : stamped[s] > 0 => stamped'[s] = stamped[s]
  BY <1>1 DEF Restamp, BufferInv, Types
<1>3. ~ disturbed' => ~ disturbed /\ ~ InFlight
  BY <1>1, Zenon DEF Restamp
<1>4. LockHeld'
  BY <1>1 DEF ShareInv, LockHeld, cacheVars, threadVars
<1>5. ASSUME ~ disturbed' PROVE StampsGiven'
  BY <1>1, <1>2, <1>3, <1>5 DEF ShareInv, StampsGiven, cacheVars, threadVars
<1>6. ASSUME ~ disturbed' PROVE CallsAreCurrent'
  <2>1. \A t \in Threads : pc'[t] \notin InOpenFile /\ pc'[t] \notin Decompressing
    BY <1>1, <1>3, <1>6 DEF InFlight, InOpenFile, Decompressing, threadVars
  <2> QED  BY <2>1 DEF CallsAreCurrent
<1>7. ASSUME ~ disturbed' PROVE EntriesLead' /\ BuffersShared'
  <2>1. \A t \in Threads : pc'[t] = "open" => stamp'[t] # fileStamp'
    BY <1>1, <1>2, <1>3, <1>7 DEF ShareInv, StampsGiven, threadVars
  <2>2. BuffersShared'
    BY <1>1, <1>3, <1>7 DEF ShareInv, BuffersShared, threadVars
  <2> QED  BY <2>1, <2>2 DEF EntriesLead
<1> QED  BY <1>4, <1>5, <1>6, <1>7 DEF ShareInv

\* A file that is gone has the stamp of no handle either.
LEMMA RemoveShareInv ==
    ASSUME BufferInv, ShareInv, RemoveFile
    PROVE  ShareInv'
<1>1. /\ fileStamp' = NoStamp /\ stamped' = stamped
      /\ UNCHANGED << cacheVars, threadVars >>
  BY DEF RemoveFile
<1>2. ~ disturbed' => ~ disturbed /\ ~ InFlight
  BY Zenon DEF RemoveFile
<1>3. LockHeld'
  BY <1>1 DEF ShareInv, LockHeld, cacheVars, threadVars
<1>4. ASSUME ~ disturbed' PROVE StampsGiven' /\ BuffersShared'
  BY <1>1, <1>2, <1>4 DEF ShareInv, StampsGiven, BuffersShared, cacheVars, threadVars
<1>5. ASSUME ~ disturbed' PROVE CallsAreCurrent'
  <2>1. \A t \in Threads : pc'[t] \notin InOpenFile /\ pc'[t] \notin Decompressing
    BY <1>1, <1>2, <1>5 DEF InFlight, InOpenFile, Decompressing, threadVars
  <2> QED  BY <2>1 DEF CallsAreCurrent
<1>6. ASSUME ~ disturbed' PROVE EntriesLead'
  BY <1>1, <1>2, <1>6, CacheAssumption DEF ShareInv, StampsGiven, EntriesLead, threadVars
<1> QED  BY <1>3, <1>4, <1>5, <1>6 DEF ShareInv

\* Who hits gets the buffer of those who opened the file in this state.
LEMMA HitShareInv ==
    ASSUME BufferInv, ShareInv, NEW t \in Threads, Hit(t)
    PROVE  ShareInv'
<1> USE CacheAssumption DEF BufferInv, Types, Hit, IsHit, fileVars, cacheVars
<1>1. LockHeld'
  BY DEF ShareInv, LockHeld, Decompressing
<1>2. ASSUME ~ disturbed' PROVE StampsGiven' /\ CallsAreCurrent'
  <2>1. \A u \in Threads : pc[u] \notin Decompressing
    BY DEF ShareInv, LockHeld
  <2> QED
    BY <1>2, <2>1 DEF ShareInv, StampsGiven, CallsAreCurrent, InOpenFile, Decompressing
<1>3. ASSUME ~ disturbed' PROVE EntriesLead'
  BY <1>3 DEF ShareInv, CallsAreCurrent, EntriesLead, InOpenFile
<1>4. ASSUME ~ disturbed' PROVE BuffersShared'
  <2>1. stamp[t] = fileStamp
    BY <1>4 DEF ShareInv, CallsAreCurrent, InOpenFile
  <2>2. \A u \in Threads :
           pc[u] = "open" /\ key[u] = key[t] /\ stamp[u] = stamp[t] =>
              buf[u] = entryData[key[t]]
    BY <1>4, <2>1 DEF ShareInv, EntriesLead
  <2> QED  BY <1>4, <2>2 DEF ShareInv, BuffersShared
<1> QED  BY <1>1, <1>2, <1>3, <1>4 DEF ShareInv

\* Who misses has no handle to share a buffer with.
LEMMA MissShareInv ==
    ASSUME BufferInv, ShareInv, NEW t \in Threads, Miss(t)
    PROVE  ShareInv'
<1> USE CacheAssumption DEF BufferInv, Types, Miss, fileVars
<1>1. LockHeld'
  BY DEF ShareInv, LockHeld, Decompressing
<1>2. ASSUME ~ disturbed' PROVE StampsGiven' /\ EntriesLead' /\ BuffersShared'
  BY <1>2 DEF ShareInv, StampsGiven, EntriesLead, BuffersShared
<1>3. ASSUME ~ disturbed' PROVE CallsAreCurrent'
  <2>1. stamp[t] = fileStamp
    BY <1>3 DEF ShareInv, CallsAreCurrent, InOpenFile
  <2>2. \A u \in Threads :
           ~ (pc[u] = "open" /\ key[t] = key[u] /\ stamp[t] = stamp[u])
    BY <1>3, <2>1 DEF ShareInv, EntriesLead, IsHit, HandlesHold
  <2> QED
    BY <1>3, <2>2 DEF ShareInv, CallsAreCurrent, InOpenFile, Decompressing
<1> QED  BY <1>1, <1>2, <1>3 DEF ShareInv

\* The buffer that is published is the first one of its path and stamp.
LEMMA PublishShareInv ==
    ASSUME BufferInv, FreshInv, ShareInv,
           NEW t \in Threads, NEW b \in Bufs, Publish(t, b)
    PROVE  ShareInv'
<1> USE CacheAssumption DEF BufferInv, Types, Publish, fileVars
<1>1. \A u \in Threads \ {t} : pc[u] \notin Decompressing
  BY DEF ShareInv, LockHeld, Decompressing
<1>2. LockHeld'
  BY <1>1 DEF LockHeld, Decompressing
<1>3. ASSUME ~ disturbed'
      PROVE  /\ stamp[t] = fileStamp /\ fileStamp \in Stamps
             /\ stamped[fileStamp] > 0
  BY <1>3 DEF ShareInv, CallsAreCurrent, InOpenFile, FreshInv, StampIsCurrent
<1>4. ASSUME ~ disturbed', NEW u \in Threads, pc[u] = "open"
      PROVE  ~ (key[t] = key[u] /\ stamp[t] = stamp[u])
  BY <1>4 DEF ShareInv, CallsAreCurrent, Decompressing
<1>5. ASSUME ~ disturbed' PROVE StampsGiven'
  BY <1>3, <1>5 DEF ShareInv, StampsGiven
<1>6. ASSUME ~ disturbed' PROVE CallsAreCurrent'
  BY <1>1, <1>6 DEF ShareInv, CallsAreCurrent, InOpenFile, Decompressing
<1>7. ASSUME ~ disturbed' PROVE EntriesLead'
  BY <1>3, <1>4, <1>7 DEF ShareInv, EntriesLead
<1>8. ASSUME ~ disturbed' PROVE BuffersShared'
  BY <1>4, <1>8 DEF ShareInv, BuffersShared
<1> QED  BY <1>2, <1>5, <1>6, <1>7, <1>8 DEF ShareInv

\* An entry that a close clears leads to no handle any more.
LEMMA CloseShareInv ==
    ASSUME BufferInv, ShareInv, NEW t \in Threads, Close(t)
    PROVE  ShareInv'
<1> USE CacheAssumption DEF BufferInv, Types, Close, Forget, fileVars
<1>1. LockHeld'
  BY DEF ShareInv, LockHeld, Decompressing
<1>2. ASSUME ~ disturbed' PROVE StampsGiven' /\ CallsAreCurrent' /\ BuffersShared'
  BY <1>2 DEF ShareInv, StampsGiven, CallsAreCurrent, BuffersShared, InOpenFile,
              Decompressing
<1>3. ASSUME ~ disturbed' PROVE EntriesLead'
  <2> SUFFICES ASSUME NEW u \in Threads, pc'[u] = "open", stamp'[u] = fileStamp'
               PROVE  entryData'[key'[u]] = buf'[u] /\ entryStamp'[key'[u]] = fileStamp'
    BY DEF EntriesLead
  <2>1. u # t /\ pc[u] = "open" /\ key'[u] = key[u] /\ buf'[u] = buf[u]
    OBVIOUS
  <2>2. entryData[key[u]] = buf[u] /\ entryStamp[key[u]] = fileStamp
    BY <1>3, <2>1 DEF ShareInv, EntriesLead
  <2>3. buf[t] = buf[u] => Holders(buf[t]) # {t}
    BY <2>1 DEF Holders
  <2> QED  BY <2>1, <2>2, <2>3
<1> QED  BY <1>1, <1>2, <1>3 DEF ShareInv

\* Every step keeps handles of one path and stamp on one buffer.
LEMMA NextShareInv ==
    ASSUME StampsDiffer = TRUE, BufferInv, FreshInv, ShareInv, [Next]_vars
    PROVE  ShareInv'
<1>1. ASSUME NEW t \in Threads, NEW k \in Keys, StatArchive(t, k) PROVE ShareInv'
  BY <1>1, CacheAssumption
     DEF StatArchive, BufferInv, Types, ShareInv, LockHeld, StampsGiven,
         CallsAreCurrent, EntriesLead, BuffersShared, InOpenFile, Decompressing,
         fileVars, cacheVars
<1>2. ASSUME NEW t \in Threads, ReadIndex(t) \/ Fail(t) PROVE ShareInv'
  BY <1>2, CacheAssumption
     DEF ReadIndex, Fail, CannotRead, Forget, BufferInv, Types, ShareInv, LockHeld,
         StampsGiven, CallsAreCurrent, EntriesLead, BuffersShared, InOpenFile,
         Decompressing, fileVars
<1>3. CASE UNCHANGED vars
  BY <1>3 DEF vars, fileVars, cacheVars, threadVars, ShareInv, LockHeld, StampsGiven,
              CallsAreCurrent, EntriesLead, BuffersShared
<1> QED
  BY <1>1, <1>2, <1>3, WriteShareInv, RemoveShareInv, HitShareInv, MissShareInv,
     PublishShareInv, CloseShareInv DEF Next

-----------------------------------------------------------------------------
(* Theorems.                                                               *)

\* Type correctness, and who holds which buffer, in every behaviour.
THEOREM CacheBufferInv == Spec => []BufferInv
BY InitBufferInv, NextBufferInv, PTL DEF Spec

\* Every open handle has a buffer and no call in flight has one, however calls
\* fail: the type invariant for any number of threads, paths and buffers.
THEOREM CacheTypeOK == Spec => []TypeOK
<1>1. BufferInv => TypeOK
  BY DEF BufferInv, TypeOK
<1> QED  BY <1>1, CacheBufferInv, PTL

\* The cache never hands out a buffer that has been freed: an entry that is
\* not empty names a buffer that some handle holds.
THEOREM CacheLiveEntries == Spec => []LiveEntries
<1>1. BufferInv => LiveEntries
  BY DEF BufferInv
<1> QED  BY <1>1, CacheBufferInv, PTL

\* The bytes that an open handle serves never change under it.
THEOREM CacheHeldBuffersAreImmutable == Spec => HeldBuffersAreImmutable
<1> DEFINE Kept == \A t \in Threads :
                      pc[t] = "open" /\ buf'[t] = buf[t] => content'[buf[t]] = content[buf[t]]
<1>1. ASSUME BufferInv, [Next]_vars PROVE [Kept]_vars
  <2>1. ASSUME NEW u \in Threads, NEW b \in Bufs, Publish(u, b) PROVE Kept
    <3>1. \A t \in Threads : pc[t] = "open" => buf[t] # b
      BY <2>1 DEF Publish, Holders
    <3> QED  BY <1>1, <2>1, <3>1 DEF Publish, BufferInv, HandlesHold, Types
  <2>2. ASSUME NEW u \in Threads, Close(u) PROVE Kept
    <3> SUFFICES ASSUME NEW t \in Threads, pc[t] = "open", buf'[t] = buf[t]
                 PROVE  content'[buf[t]] = content[buf[t]]
      OBVIOUS
    <3>1. buf[t] \in Bufs /\ buf[t] # NoBuf
      BY <1>1, CacheAssumption DEF BufferInv, HandlesHold
    <3>2. t # u
      BY <1>1, <2>2, <3>1 DEF Close, BufferInv, Types
    <3>3. buf[t] = buf[u] => Holders(buf[u]) # {u}
      BY <3>2 DEF Holders
    <3> QED  BY <1>1, <2>2, <3>3 DEF Close, BufferInv, HandlesHold, Types
  <2>3. ASSUME content' = content PROVE Kept
    BY <2>3
  <2>4. CASE UNCHANGED vars
    BY <2>4
  <2>5. CASE Next
    <3>1. ASSUME \/ \E n \in 1 .. MaxChunks : Replace(n) \/ EndInPlace(n)
                 \/ BeginInPlace \/ RemoveFile
          PROVE  content' = content
      BY <3>1 DEF Replace, EndInPlace, BeginInPlace, RemoveFile, cacheVars
    <3>2. ASSUME NEW t \in Threads,
                 \/ \E k \in Keys : StatArchive(t, k)
                 \/ Hit(t) \/ Miss(t) \/ ReadIndex(t) \/ Fail(t)
          PROVE  content' = content
      BY <3>2 DEF StatArchive, Hit, Miss, ReadIndex, Fail, CannotRead, cacheVars
    <3> HIDE DEF Kept
    <3> QED  BY <2>1, <2>2, <2>3, <2>5, <3>1, <3>2 DEF Next
  <2> QED  BY <1>1, <2>4, <2>5
<1> QED  BY <1>1, CacheBufferInv, PTL DEF Spec, HeldBuffersAreImmutable

\* With stamps that differ, stamps and versions stay in order.
THEOREM CacheFreshInv == ASSUME StampsDiffer = TRUE PROVE Spec => []FreshInv
<1>1. BufferInv /\ FreshInv /\ [Next]_vars => FreshInv'
  BY NextFreshInv
<1> QED  BY <1>1, InitFreshInv, CacheBufferInv, PTL DEF Spec

\* The comment at openzl_file_system.cpp:40-42 is right as far as stamps tell
\* versions apart: no handle serves an archive older than the one its
\* OpenFile found.
THEOREM CacheNeverStale == ASSUME StampsDiffer = TRUE PROVE Spec => []NeverStale
<1>1. FreshInv => NeverStale
  BY DEF FreshInv
<1> QED  BY <1>1, CacheFreshInv, PTL

\* However many threads scan an archive, each path of it is decompressed into
\* one buffer for each state of the file: handles that found the same state
\* share it, if no writer got between a stat and the return of its OpenFile.
THEOREM CacheOneBufferPerArchive ==
    ASSUME StampsDiffer = TRUE PROVE Spec => []OneBufferPerArchive
<1>1. ShareInv => OneBufferPerArchive
  BY DEF ShareInv, BuffersShared, OneBufferPerArchive
<1>2. BufferInv /\ FreshInv /\ ShareInv /\ [Next]_vars => ShareInv'
  BY NextShareInv
<1> QED  BY <1>1, <1>2, InitShareInv, CacheBufferInv, CacheFreshInv, PTL DEF Spec
=============================================================================
