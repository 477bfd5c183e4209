---------------------------- MODULE ArchiveCache ----------------------------
(***************************************************************************)
(* The read side of openzl:// (src/src/openzl_file_system.cpp): concurrent *)
(* OpenFile calls on one archive, the cache of decompressed buffers they   *)
(* share, and the writers that replace the archive meanwhile.              *)
(*                                                                         *)
(* OpenFile takes the archive's size and mtime (its "stamp") before it     *)
(* locks the cache, and holds the lock while it decompresses.  A cache     *)
(* entry holds a weak reference: the buffer lives exactly as long as some  *)
(* handle holds it, and buffer names are used again after that.            *)
(***************************************************************************)
EXTENDS Integers, FiniteSets

CONSTANTS
    Threads,     \* callers of OpenFile
    Keys,        \* real paths: 0 is the archive, i > 0 is "<archive>#chunk=i-1"
    Bufs,        \* names of decompressed buffers
    Stamps,      \* the (size, mtime) pairs that stat can report
    NoStamp,     \* (-1, -1): stat failed
    NoBuf,       \* an expired or empty weak_ptr, a null shared_ptr
    NoThread,    \* the cache mutex is free
    MaxChunks,   \* bound: chunks in an archive
    MaxVersion,  \* bound: times the archive is written
    MaxOpens,    \* bound: OpenFile calls of all threads
    StampsDiffer \* TRUE: no two states of the file have the same stamp

ASSUME CacheAssumption ==
    /\ Keys \subseteq Nat /\ 0 \in Keys
    /\ NoStamp \notin Stamps
    /\ NoBuf \notin Bufs
    /\ NoThread \notin Threads
    /\ MaxChunks \in Nat /\ MaxVersion \in Nat /\ MaxOpens \in Nat
    /\ StampsDiffer \in BOOLEAN

VARIABLES
    version,     \* how often the archive has been written
    chunks,      \* chunks in it: 1 is a plain frame, 0 is unreadable
    exists,      \* the file is there
    fileStamp,   \* what stat reports while it is there
    stamped,     \* history: the version a stamp was given to, 0 if none
    entryData,   \* ArchiveCacheEntry.data
    entryStamp,  \* ArchiveCacheEntry.size and .mtime
    content,     \* the version a buffer was decompressed from
    lock,        \* who holds ArchiveCacheMutex
    indexed,     \* the version whose index the holder of the lock has read
    pc, key, stamp, buf,  \* each thread's place in OpenFile and its locals
    since,       \* history: the version in place at the thread's stat
    opens,       \* how often OpenFile has been called
    disturbed    \* history: the archive changed while an OpenFile was running

fileVars   == << version, chunks, exists, fileStamp, stamped, disturbed >>
cacheVars  == << entryData, entryStamp, content, lock, indexed >>
threadVars == << pc, key, stamp, buf, since, opens >>
vars == << fileVars, cacheVars, threadVars >>

Init ==
    /\ version = 0 /\ chunks = 0 /\ exists = FALSE
    /\ fileStamp = NoStamp
    /\ stamped = [s \in Stamps |-> 0]
    /\ entryData = [k \in Keys |-> NoBuf]
    /\ entryStamp = [k \in Keys |-> NoStamp]
    /\ content = [b \in Bufs |-> 0]
    /\ lock = NoThread
    /\ pc = [t \in Threads |-> "idle"]
    /\ indexed = 0
    /\ key = [t \in Threads |-> 0]
    /\ stamp = [t \in Threads |-> NoStamp]
    /\ buf = [t \in Threads |-> NoBuf]
    /\ since = [t \in Threads |-> 0]
    /\ opens = 0
    /\ disturbed = FALSE

-----------------------------------------------------------------------------
(* The archive's writers.  A COPY over an existing archive and a write     *)
(* through openzl:// rename a finished file into place; a COPY to a new    *)
(* path and openzl_compress write in place, so that the file is unreadable *)
(* for a while.                                                            *)

InFlight == \E t \in Threads : pc[t] \notin {"idle", "open"}

\* Every state of the file gets some stamp; size and whole seconds may repeat.
Restamp(v) ==
    /\ \E s \in Stamps :
          /\ StampsDiffer => stamped[s] = 0
          /\ fileStamp' = s
          /\ stamped' = [stamped EXCEPT ![s] = v]
    /\ disturbed' = (disturbed \/ InFlight)

Replace(n) ==
    /\ version < MaxVersion
    /\ version' = version + 1
    /\ chunks' = n
    /\ exists' = TRUE
    /\ Restamp(version')
    /\ UNCHANGED << cacheVars, threadVars >>

BeginInPlace ==
    /\ version < MaxVersion
    /\ version' = version + 1
    /\ chunks' = 0
    /\ exists' = TRUE
    /\ Restamp(version')
    /\ UNCHANGED << cacheVars, threadVars >>

EndInPlace(n) ==
    /\ exists /\ chunks = 0
    /\ chunks' = n
    /\ Restamp(version)
    /\ UNCHANGED << version, exists, cacheVars, threadVars >>

RemoveFile ==
    /\ exists
    /\ exists' = FALSE
    /\ chunks' = 0
    /\ fileStamp' = NoStamp
    /\ disturbed' = (disturbed \/ InFlight)
    /\ UNCHANGED << version, stamped, cacheVars, threadVars >>

-----------------------------------------------------------------------------
(* OpenFile for reading.                                                   *)

\* StatArchive; its result is not looked at, so a failure leaves -1 and -1.
StatArchive(t, k) ==
    /\ pc[t] = "idle" /\ opens < MaxOpens
    /\ key' = [key EXCEPT ![t] = k]
    /\ stamp' = [stamp EXCEPT ![t] = fileStamp]
    /\ since' = [since EXCEPT ![t] = IF exists THEN version ELSE 0]
    /\ opens' = opens + 1
    /\ pc' = [pc EXCEPT ![t] = "stated"]
    /\ UNCHANGED << fileVars, cacheVars, buf >>

\* Mutant of IsHit: any live entry is a hit, whatever its size and mtime.
IsHitIgnoringStamp(t) == entryData[key[t]] # NoBuf

IsHit(t) ==
    /\ entryData[key[t]] # NoBuf
    /\ entryStamp[key[t]] = stamp[t]

\* The lock is taken, the entry is current, the lock is released.
Hit(t) ==
    /\ pc[t] = "stated" /\ lock = NoThread
    /\ IsHit(t)
    /\ buf' = [buf EXCEPT ![t] = entryData[key[t]]]
    /\ pc' = [pc EXCEPT ![t] = "open"]
    /\ UNCHANGED << fileVars, cacheVars, key, stamp, since, opens >>

\* Mutant of Miss: the lock is held for the lookup only.
MissUnlocked(t) ==
    /\ pc[t] = "stated" /\ lock = NoThread
    /\ ~ IsHit(t)
    /\ pc' = [pc EXCEPT ![t] = "decompressing"]
    /\ UNCHANGED << fileVars, cacheVars, key, stamp, buf, since, opens >>

Miss(t) ==
    /\ pc[t] = "stated" /\ lock = NoThread
    /\ ~ IsHit(t)
    /\ lock' = t
    /\ pc' = [pc EXCEPT ![t] = "decompressing"]
    /\ UNCHANGED << fileVars, entryData, entryStamp, content, indexed,
                    key, stamp, buf, since, opens >>

\* A whole archive must be a plain frame, a chunk must be in the index.
Readable(t) ==
    IF key[t] = 0 THEN chunks = 1 ELSE chunks > 1 /\ key[t] <= chunks

\* DecompressToBuffer and DecompressChunkToBuffer open the file to read the
\* index, and open it again to read the data.
ReadIndex(t) ==
    /\ pc[t] = "decompressing"
    /\ exists /\ Readable(t)
    /\ indexed' = version
    /\ pc' = [pc EXCEPT ![t] = "indexed"]
    /\ UNCHANGED << fileVars, entryData, entryStamp, content, lock,
                    key, stamp, buf, since, opens >>

\* The locals of a call or a handle that is gone.
Forget(t) ==
    /\ key' = [key EXCEPT ![t] = 0]
    /\ stamp' = [stamp EXCEPT ![t] = NoStamp]
    /\ since' = [since EXCEPT ![t] = 0]

Holders(b) == {t \in Threads : buf[t] = b}

\* Mutant of Publish: the bytes may go into a buffer that is still held.
PublishInPlace(t, b) ==
    /\ pc[t] = "indexed"
    /\ exists /\ Readable(t)
    /\ content' = [content EXCEPT ![b] = version]
    /\ entryData' = [entryData EXCEPT ![key[t]] = b]
    /\ entryStamp' = [entryStamp EXCEPT ![key[t]] = stamp[t]]
    /\ buf' = [buf EXCEPT ![t] = b]
    /\ lock' = NoThread
    /\ indexed' = 0
    /\ pc' = [pc EXCEPT ![t] = "open"]
    /\ UNCHANGED << fileVars, key, stamp, since, opens >>

\* The data read is what is in the file at the second open.
Publish(t, b) ==
    /\ pc[t] = "indexed"
    /\ exists /\ Readable(t)
    /\ Holders(b) = {}
    /\ content' = [content EXCEPT ![b] = version]
    /\ entryData' = [entryData EXCEPT ![key[t]] = b]
    /\ entryStamp' = [entryStamp EXCEPT ![key[t]] = stamp[t]]
    /\ buf' = [buf EXCEPT ![t] = b]
    /\ lock' = NoThread
    /\ indexed' = 0
    /\ pc' = [pc EXCEPT ![t] = "open"]
    /\ UNCHANGED << fileVars, key, stamp, since, opens >>

CannotRead(t) ==
    \/ pc[t] \in {"decompressing", "indexed"} /\ ~ (exists /\ Readable(t))
    \/ pc[t] = "indexed" /\ key[t] # 0 /\ version # indexed

\* Mutant of Fail: the error is caught and a handle without bytes returned.
FailReturnsHandle(t) ==
    /\ CannotRead(t)
    /\ lock' = NoThread
    /\ indexed' = 0
    /\ pc' = [pc EXCEPT ![t] = "open"]
    /\ UNCHANGED << fileVars, entryData, entryStamp, content, key, stamp, buf, since, opens >>

\* Mutant of Fail: the lock is not released when decompression throws.
FailKeepsLock(t) ==
    /\ CannotRead(t)
    /\ indexed' = 0
    /\ pc' = [pc EXCEPT ![t] = "idle"]
    /\ Forget(t)
    /\ UNCHANGED << fileVars, entryData, entryStamp, content, lock, buf, opens >>

\* IOException: the file is missing or is not what the path asks for at one of
\* the two opens, or a chunk's range comes from the index of a file that has
\* been replaced.  The entry is not touched; the thread's locals are gone.
Fail(t) ==
    /\ CannotRead(t)
    /\ lock' = NoThread
    /\ indexed' = 0
    /\ pc' = [pc EXCEPT ![t] = "idle"]
    /\ Forget(t)
    /\ UNCHANGED << fileVars, entryData, entryStamp, content, buf, opens >>

\* Mutant of Close: the entry keeps naming the buffer after it is freed.
CloseKeepsEntry(t) ==
    /\ pc[t] = "open"
    /\ buf' = [buf EXCEPT ![t] = NoBuf]
    /\ content' = [content EXCEPT ![buf[t]] = IF Holders(buf[t]) = {t} THEN 0 ELSE @]
    /\ pc' = [pc EXCEPT ![t] = "idle"]
    /\ Forget(t)
    /\ UNCHANGED << fileVars, entryData, entryStamp, lock, indexed, opens >>

\* The handle is destroyed: the last holder frees the buffer, and with it
\* every weak reference to it expires.
Close(t) ==
    /\ pc[t] = "open"
    /\ buf' = [buf EXCEPT ![t] = NoBuf]
    /\ entryData' = [k \in Keys |->
                        IF entryData[k] = buf[t] /\ Holders(buf[t]) = {t}
                        THEN NoBuf ELSE entryData[k]]
    /\ content' = [content EXCEPT ![buf[t]] = IF Holders(buf[t]) = {t} THEN 0 ELSE @]
    /\ pc' = [pc EXCEPT ![t] = "idle"]
    /\ Forget(t)
    /\ UNCHANGED << fileVars, entryStamp, lock, indexed, opens >>

OpenStep(t) ==
    Hit(t) \/ Miss(t) \/ ReadIndex(t) \/ (\E b \in Bufs : Publish(t, b)) \/ Fail(t)

Next ==
    \/ \E n \in 1 .. MaxChunks : Replace(n)
    \/ BeginInPlace
    \/ \E n \in 1 .. MaxChunks : EndInPlace(n)
    \/ RemoveFile
    \/ \E t \in Threads :
          \/ \E k \in Keys : StatArchive(t, k)
          \/ Hit(t)
          \/ Miss(t)
          \/ ReadIndex(t)
          \/ \E b \in Bufs : Publish(t, b)
          \/ Fail(t)
          \/ Close(t)

Spec == Init /\ [][Next]_vars

\* A thread inside OpenFile runs on; nobody has to call it, to close a handle
\* or to write the archive.
FairSpec == Spec /\ \A t \in Threads : WF_vars(OpenStep(t))

-----------------------------------------------------------------------------
(* Properties.                                                             *)

Types ==
    /\ version \in Nat /\ chunks \in 0 .. MaxChunks /\ exists \in BOOLEAN
    /\ fileStamp \in Stamps \cup {NoStamp}
    /\ stamped \in [Stamps -> Nat]
    /\ entryData \in [Keys -> Bufs \cup {NoBuf}]
    /\ entryStamp \in [Keys -> Stamps \cup {NoStamp}]
    /\ content \in [Bufs -> Nat]
    /\ lock \in Threads \cup {NoThread}
    /\ indexed \in Nat
    /\ pc \in [Threads -> {"idle", "stated", "decompressing", "indexed", "open"}]
    /\ key \in [Threads -> Keys]
    /\ stamp \in [Threads -> Stamps \cup {NoStamp}]
    /\ buf \in [Threads -> Bufs \cup {NoBuf}]
    /\ since \in [Threads -> Nat]
    /\ opens \in Nat
    /\ disturbed \in BOOLEAN

\* Exactly the open handles hold buffers.
HandlesHold ==
    \A t \in Threads : IF pc[t] = "open" THEN buf[t] \in Bufs ELSE buf[t] = NoBuf

\* The type invariant of the cache: a call of OpenFile that throws hands out
\* no handle, and one that returns hands out a handle with a buffer.
TypeOK == Types /\ HandlesHold

\* A handle never serves an older version of the archive than the one in
\* place when OpenFile looked at the file, whatever older handles hold.
\* Comment at openzl_file_system.cpp:40-42.
NeverStale ==
    \A t \in Threads : pc[t] = "open" => content[buf[t]] >= since[t]

\* Handles on the same path that found the archive in the same state share
\* one buffer: peak memory does not grow with the number of scan threads.
\* Only a writer that gets between an OpenFile's stat and its return can
\* cause a second one.
OneBufferPerArchive ==
    ~ disturbed =>
        \A t, u \in Threads :
            pc[t] = "open" /\ pc[u] = "open" /\ key[t] = key[u] /\ stamp[t] = stamp[u]
                => buf[t] = buf[u]

\* A weak reference in the cache never revives a freed buffer.
LiveEntries ==
    \A k \in Keys : entryData[k] # NoBuf => Holders(entryData[k]) # {}

\* The bytes under an open handle never change, whoever opens, closes or
\* rewrites meanwhile.
HeldBuffersAreImmutable ==
    [][\A t \in Threads :
          pc[t] = "open" /\ buf'[t] = buf[t] => content'[buf[t]] = content[buf[t]]]_vars

\* Every OpenFile returns or throws: no path leaves the cache mutex locked.
EveryOpenReturns ==
    \A t \in Threads : pc[t] = "stated" ~> pc[t] \in {"open", "idle"}
=============================================================================
