---------------------------- MODULE DuckLakePack ----------------------------
(***************************************************************************)
(* scripts/ducklake_pack.py: a DuckLake's parquet files are repacked as    *)
(* archives by a pool of workers, while the main thread points the catalog *)
(* at each archive that was verified and removes the parquet file.         *)
(*                                                                         *)
(* A row of the catalog, its parquet file and the archive beside it go by  *)
(* one name, so no two rows lead to one archive.  Any call of the DuckDB   *)
(* program or the file system may fail, the script may die between any two *)
(* calls, and it is run again.  DuckLake adds and drops rows meanwhile.    *)
(***************************************************************************)
EXTENDS Naturals, FiniteSets

CONSTANTS
    Files,    \* rows of the catalog that there can be
    Nested,   \* those whose schema cannot be packed
    Workers,  \* the size of the pool
    None,     \* no file is in the hands of the main thread
    MaxRuns   \* bound: how often the script is started

ASSUME PackAssumption ==
    /\ Nested \subseteq Files
    /\ Workers \in Nat \ {0} /\ MaxRuns \in Nat
    /\ None \notin Files

VARIABLES
    catalog,  \* what a row names: "parquet" or "archive"; "none" before there
              \* is a row, "ex-parquet" or "ex-archive" when it was dropped
    parquet,  \* the parquet files that exist
    archive,  \* "none", "partial", or its rows: "same" as the parquet's, "other"
    task,     \* of each file, where its pack_one is: "none" if not listed
    main,     \* where the main thread is
    current,  \* the file whose result it handles
    failed,   \* the files it has reported as failed
    runs

store == << catalog, parquet, archive >>
script == << task, main, current, failed, runs >>
vars == << store, script >>

Init ==
    /\ catalog \in [Files -> {"none", "parquet"}]
    /\ parquet = { f \in Files : catalog[f] = "parquet" }
    /\ archive = [f \in Files |-> "none"]
    /\ task = [f \in Files |-> "none"]
    /\ main = "ended"
    /\ current = None
    /\ failed = {}
    /\ runs = 0

-----------------------------------------------------------------------------
(* DuckLake.                                                               *)

AddFile(f) ==
    /\ catalog[f] = "none"
    /\ catalog' = [catalog EXCEPT ![f] = "parquet"]
    /\ parquet' = parquet \cup {f}
    /\ UNCHANGED << archive, script >>

\* Compaction or expiry takes the row away, and cleanup what it named.
DropRow(f) ==
    /\ catalog[f] \in {"parquet", "archive"}
    /\ catalog' = [catalog EXCEPT ![f] =
                      IF @ = "parquet" THEN "ex-parquet" ELSE "ex-archive"]
    /\ UNCHANGED << parquet, archive, script >>

CleanUp(f) ==
    /\ \/ /\ catalog[f] = "ex-parquet"
          /\ parquet' = parquet \ {f} /\ UNCHANGED archive
       \/ /\ catalog[f] = "ex-archive"
          /\ archive' = [archive EXCEPT ![f] = "none"] /\ UNCHANGED parquet
    /\ UNCHANGED << catalog, script >>

-----------------------------------------------------------------------------
(* pack_one.                                                               *)

\* Mutant of Busy: a worker takes one task and no other.
BusyForGood == { f \in Files : task[f] \notin {"none", "queued"} }

Busy == { f \in Files : task[f] \in {"copying", "verifying", "measuring"} }

Goto(f, step) ==
    /\ task' = [task EXCEPT ![f] = step]
    /\ UNCHANGED << catalog, parquet, main, current, failed, runs >>

FieldIds(f) ==
    /\ task[f] = "queued" /\ Cardinality(Busy) < Workers
    /\ IF f \in parquet /\ f \notin Nested
       THEN Goto(f, "copying") ELSE Goto(f, "failed")
    /\ UNCHANGED archive

\* COPY replaces an archive in one step, and writes a new one in place.
CopyPart(f) ==
    /\ task[f] = "copying" /\ archive[f] = "none"
    /\ archive' = [archive EXCEPT ![f] = "partial"]
    /\ Goto(f, "copying")

\* A COPY that returns may have lost the end of its archive, or have stored
\* other rows than it read: what verification is for.
Copied(f) ==
    /\ task[f] = "copying" /\ f \in parquet
    /\ \E a \in {"partial", "other", "same"} :
          archive' = [archive EXCEPT ![f] = a]
    /\ Goto(f, "verifying")

\* Mutant of Verified: any archive that can be read is taken.
VerifiedReadable(f) ==
    /\ task[f] = "verifying" /\ f \in parquet /\ archive[f] \in {"same", "other"}
    /\ Goto(f, "measuring")
    /\ UNCHANGED archive

Verified(f) ==
    /\ task[f] = "verifying" /\ f \in parquet /\ archive[f] = "same"
    /\ Goto(f, "measuring")
    /\ UNCHANGED archive

Differs(f) ==
    /\ task[f] = "verifying" /\ f \in parquet /\ archive[f] = "other"
    /\ archive' = [archive EXCEPT ![f] = "none"]
    /\ Goto(f, "failed")

Measured(f) ==
    /\ task[f] = "measuring" /\ archive[f] \in {"same", "other"}
    /\ Goto(f, "packed")
    /\ UNCHANGED archive

\* A call fails, or removing a temporary file does.
PackFails(f) ==
    /\ \/ f \in Busy
       \/ task[f] = "queued" /\ Cardinality(Busy) < Workers
    /\ Goto(f, "failed")
    /\ UNCHANGED archive

pack_one(f) ==
    \/ FieldIds(f) \/ CopyPart(f) \/ Copied(f)
    \/ Verified(f) \/ Differs(f) \/ Measured(f) \/ PackFails(f)

-----------------------------------------------------------------------------
(* main.                                                                   *)

\* The files to pack: those of parquet, or the first of them (--limit).
Start ==
    /\ main \in {"ended", "done"} /\ runs < MaxRuns
    /\ \E listed \in SUBSET { f \in Files : catalog[f] = "parquet" } :
          task' = [f \in Files |-> IF f \in listed THEN "queued" ELSE "none"]
    /\ main' = "collecting"
    /\ failed' = {}
    /\ runs' = runs + 1
    /\ UNCHANGED << store, current >>

\* Mutant of CountFailed: an exception is reported but not counted.
CountFailedPrinted(f) ==
    /\ main = "collecting" /\ task[f] = "failed"
    /\ task' = [task EXCEPT ![f] = "taken"]
    /\ failed' = failed
    /\ UNCHANGED << store, main, current, runs >>

CountFailed(f) ==
    /\ main = "collecting" /\ task[f] = "failed"
    /\ task' = [task EXCEPT ![f] = "taken"]
    /\ failed' = failed \cup {f}
    /\ UNCHANGED << store, main, current, runs >>

TakeResult(f) ==
    /\ main = "collecting" /\ task[f] = "packed"
    /\ task' = [task EXCEPT ![f] = "taken"]
    /\ current' = f
    /\ main' = "updating"
    /\ UNCHANGED << store, failed, runs >>

\* UPDATE ... WHERE data_file_id: nothing when the row is gone.
Repointed ==
    IF catalog[current] = "parquet"
    THEN [catalog EXCEPT ![current] = "archive"] ELSE catalog

Update ==
    /\ main = "updating"
    /\ catalog' = Repointed
    /\ main' = "removing"
    /\ UNCHANGED << parquet, archive, task, current, failed, runs >>

\* Mutant of RemoveParquet: the main thread forgets to let go of the file.
RemoveParquetKeepsCurrent ==
    /\ main = "removing" /\ current \in parquet
    /\ parquet' = parquet \ {current}
    /\ main' = "collecting"
    /\ UNCHANGED << catalog, archive, task, current, failed, runs >>

RemoveParquet ==
    /\ main = "removing" /\ current \in parquet
    /\ parquet' = parquet \ {current}
    /\ main' = "collecting"
    /\ current' = None
    /\ UNCHANGED << catalog, archive, task, failed, runs >>

\* Nothing catches an error of the update, committed or not, or of the
\* removal: the pool is left, which waits for the tasks that were submitted.
MainFails ==
    /\ \/ main = "updating" /\ catalog' \in {catalog, Repointed}
       \/ main = "removing" /\ UNCHANGED catalog
    /\ main' = "leaving"
    /\ current' = None
    /\ UNCHANGED << parquet, archive, task, failed, runs >>

Leave ==
    /\ main = "leaving"
    /\ \A f \in Files : task[f] \in {"none", "failed", "packed", "taken"}
    /\ main' = "ended"
    /\ UNCHANGED << store, task, current, failed, runs >>

\* "DONE packed=... failed=..."
Done ==
    /\ main = "collecting"
    /\ \A f \in Files : task[f] \in {"none", "taken"}
    /\ main' = "done"
    /\ UNCHANGED << store, task, current, failed, runs >>

Main ==
    \/ \E f \in Files : CountFailed(f) \/ TakeResult(f)
    \/ Update \/ RemoveParquet \/ MainFails \/ Leave \/ Done

\* The script and the programs it has started die.
Crash ==
    /\ main \notin {"ended", "done"}
    /\ task' = [f \in Files |-> "none"]
    /\ main' = "ended"
    /\ current' = None
    /\ failed' = {}
    /\ UNCHANGED << store, runs >>

Next ==
    \/ \E f \in Files : AddFile(f) \/ DropRow(f) \/ CleanUp(f)
    \/ \E f \in Files : pack_one(f)
    \/ Start
    \/ Main
    \/ Crash

Spec == Init /\ [][Next]_vars

\* The programs a worker or the main thread waits for return.
FairSpec == Spec /\ WF_vars(Main) /\ \A f \in Files : WF_vars(pack_one(f))

-----------------------------------------------------------------------------
(* Properties.                                                             *)

\* The main thread has a file in its hands exactly while it repoints the row
\* and removes the parquet file, and nothing is busy when no run is.
TypeOK ==
    /\ catalog \in [Files -> {"none", "parquet", "archive", "ex-parquet",
                              "ex-archive"}]
    /\ parquet \subseteq Files
    /\ archive \in [Files -> {"none", "partial", "other", "same"}]
    /\ task \in [Files -> {"none", "queued", "copying", "verifying", "measuring",
                           "failed", "packed", "taken"}]
    /\ main \in {"ended", "collecting", "updating", "removing", "leaving", "done"}
    /\ current \in Files \cup {None}
    /\ current # None <=> main \in {"updating", "removing"}
    /\ main \in {"ended", "done"} => Busy = {}
    /\ failed \subseteq Files
    /\ runs \in 0 .. MaxRuns

\* "Resumable", with a file that "only changes in the catalog after its
\* archive was verified": whatever fails and wherever a run dies, each row
\* names a file that exists, is whole and has the rows it stands for.
CatalogNamesItsRows ==
    \A f \in Files :
        /\ catalog[f] = "parquet" => f \in parquet
        /\ catalog[f] = "archive" => archive[f] = "same"

\* The summary can be trusted: after "DONE" a file that was to be packed and
\* is not among the failed is an archive in the catalog, unless DuckLake has
\* dropped it, and its parquet file is gone.
DoneIsTrue ==
    main = "done" =>
        \A f \in Files : task[f] = "taken" /\ f \notin failed =>
            /\ catalog[f] \in {"archive", "ex-archive", "ex-parquet"}
            /\ f \notin parquet

\* A run ends, also when the main thread stops at an error with tasks left.
EveryRunEnds == (main = "collecting") ~> (main \in {"ended", "done"})
=============================================================================
