------------------------------- MODULE Train -------------------------------
(***************************************************************************)
(* openzl_train (src/src/openzl_train_bridge.cpp and openzl_extension.cpp):*)
(* training happens when the statement is bound.  It selects samples by    *)
(* their sizes, reads them, searches, and writes each candidate to a file; *)
(* executions of the statement only return the rows that were kept.  Other *)
(* programs replace and remove samples, every call can fail, and the       *)
(* process can die at any step.                                            *)
(*                                                                         *)
(* The search is OpenZL's: it gives some candidates or fails.  A sample is *)
(* its size in MB, and the bytes of a compressor are the run and the       *)
(* number of the candidate.                                                *)
(***************************************************************************)
EXTENDS Integers, Sequences, FiniteSets, FiniteSetsExt

CONSTANTS
    Samples,        \* parquet files
    sample_paths,   \* the first argument, a sequence of them
    Sizes,          \* sizes that occur
    SizeMax,        \* the size_t of a file that cannot be opened: tellg() is -1
    Options,        \* the named parameters that are tried
    MaxCandidates,  \* bound: candidates of a search
    MaxStatements,  \* bound: statements
    VectorSize,     \* STANDARD_VECTOR_SIZE
    TailCanBeLost,  \* the last bytes of a stream may be lost unnoticed
    NULL, NoFile,
    Part,           \* a file that is open, or was when writing failed
    Moved           \* a string that std::move has emptied

TrainOptions ==
    [num_samples : Nat, max_file_size_mb : Nat, max_total_size_mb : Nat,
     pareto_frontier : BOOLEAN, benchmark : BOOLEAN \cup {NULL},
     output : BOOLEAN]

ASSUME TrainAssumption ==
    /\ sample_paths \in Seq(Samples)
    /\ SizeMax \in Nat /\ Sizes \subseteq 0 .. SizeMax
    /\ Options \subseteq TrainOptions
    /\ {MaxCandidates, VectorSize} \subseteq Nat \ {0}
    /\ MaxStatements \in Nat

\* output_path without a number, and output_path.0, output_path.1, ...
Single == -1
Outputs == {Single} \cup 0 .. MaxCandidates - 1
Bytes == (1 .. MaxStatements) \X (0 .. MaxCandidates - 1)

VARIABLES
    size,        \* of each parquet file, or NoFile
    files,       \* what each output file holds: Bytes, Part or NoFile
    pc,          \* "idle", "select", "read", "search", "write", then "open"
                 \* and "fill" for the file of a candidate, "returned", "threw"
    run,         \* how many statements have been bound
    opts,        \* the parameters of this one
    sized,       \* the sizes that SelectSamplePaths has looked at
    selected,    \* the positions in sample_paths that it has taken
    candidates,  \* what the search found, where it has not been moved away
    outputs,     \* the rows, one for each candidate so far
    emitted,     \* the rows that the current execution has returned
    before       \* history: files when this statement was bound

boundVars == << run, opts, before >>
selectVars == << sized, selected >>
trainVars == << size, files, pc, selectVars, candidates, outputs, emitted, boundVars >>

TrainInit ==
    /\ size \in [Samples -> Sizes \cup {NoFile}]
    /\ files = [p \in Outputs |-> NoFile]
    /\ pc = "idle"
    /\ run = 0 /\ opts \in Options
    /\ sized = << >> /\ selected = {}
    /\ candidates = << >> /\ outputs = << >> /\ emitted = << >>
    /\ before = files

\* Another program replaces or removes a sample.
Replace(f, n) ==
    /\ pc \in {"idle", "select", "read"}
    /\ size' = [size EXCEPT ![f] = n]
    /\ UNCHANGED << files, pc, selectVars, candidates, outputs, emitted, boundVars >>

\* An exception leaves Train and the bind; the files stay as they are.
Throw ==
    /\ pc' = "threw"
    /\ sized' = << >> /\ selected' = {} /\ candidates' = << >> /\ outputs' = << >>
    /\ UNCHANGED << size, files, emitted, boundVars >>

-----------------------------------------------------------------------------
(* Bind: the samples.                                                      *)

SamplesExist ==
    /\ sample_paths # << >>
    /\ \A k \in DOMAIN sample_paths : size[sample_paths[k]] # NoFile

OpenzlTrainBind(o) ==
    /\ pc \in {"idle", "returned", "threw"} /\ run < MaxStatements
    /\ run' = run + 1 /\ opts' = o /\ before' = files
    /\ pc' = IF SamplesExist THEN "select" ELSE "threw"
    /\ outputs' = << >> /\ emitted' = << >>
    /\ UNCHANGED << size, files, selectVars, candidates >>

Limit(mb, default) == IF mb > 0 THEN mb ELSE default
max_file == Limit(opts.max_file_size_mb, 150)
max_total == Limit(opts.max_total_size_mb, 300)

\* The sum over the files that are taken, as the loop computes it.
SumOf(sizes, taken) ==
    LET sum[n \in 0 .. Len(sizes)] ==
            IF n = 0 THEN 0
            ELSE sum[n - 1] + (IF n \in taken THEN sizes[n] ELSE 0)
    IN  sum[Len(sizes)]

total == SumOf(sized, selected)
position == Len(sized) + 1

\* The first limit that is hit ends the selection.
AtEnd ==
    \/ position > Len(sample_paths)
    \/ opts.num_samples > 0 /\ Cardinality(selected) >= opts.num_samples

\* Mutant of Skipped: too large a file ends the selection.
SkippedIsLast(sz) == sz > max_file /\ pc' = "read" /\ UNCHANGED selected

Skipped(sz) == sz > max_file /\ UNCHANGED << selected, pc >>

FileSize(f) == IF size[f] = NoFile THEN SizeMax ELSE size[f]

\* A file that has gone since it was checked looks too large, and is skipped.
SelectSamplePath ==
    LET sz == FileSize(sample_paths[position])
    IN  /\ pc = "select" /\ ~AtEnd
        /\ sized' = Append(sized, sz)
        /\ \/ Skipped(sz)
           \/ /\ sz <= max_file
              /\ total + sz > max_total /\ selected # {}
              /\ pc' = "read"
              /\ UNCHANGED selected
           \/ /\ sz <= max_file
              /\ total + sz <= max_total \/ selected = {}
              /\ selected' = selected \cup {position}
              /\ UNCHANGED pc
        /\ UNCHANGED << size, files, candidates, outputs, emitted, boundVars >>

SelectionEnds ==
    /\ pc = "select" /\ AtEnd /\ selected # {}
    /\ pc' = "read"
    /\ UNCHANGED << size, files, selectVars, candidates, outputs, emitted, boundVars >>

SelectionFails ==
    /\ pc = "select" /\ AtEnd /\ selected = {}
    /\ Throw

ReadSamples ==
    /\ pc = "read"
    /\ \A k \in selected : size[sample_paths[k]] # NoFile
    /\ pc' = "search"
    /\ sized' = << >> /\ selected' = {}
    /\ UNCHANGED << size, files, candidates, outputs, emitted, boundVars >>

ReadFails ==
    /\ pc = "read"
    /\ \E k \in selected : size[sample_paths[k]] = NoFile
    /\ Throw

-----------------------------------------------------------------------------
(* Bind: the candidates and their files.                                   *)

\* Without a frontier any number but one is an error.
Search(n) ==
    /\ pc = "search"
    /\ opts.pareto_frontier \/ n = 1
    /\ candidates' = [i \in 1 .. n |-> << run, i - 1 >>]
    /\ pc' = "write"
    /\ UNCHANGED << size, files, selectVars, outputs, emitted, boundVars >>

do_benchmark ==
    IF opts.benchmark # NULL THEN opts.benchmark ELSE opts.pareto_frontier

Path(i) == IF opts.pareto_frontier THEN i ELSE Single

\* Mutant of Measurement: the bytes have been moved out before the benchmark.
MeasurementAfterMove(i) == IF do_benchmark THEN Moved ELSE NULL

Measurement(i) == IF do_benchmark THEN candidates[i + 1] ELSE NULL

\* Candidate i is measured, and its bytes are moved into its row.
TakeCandidate(i) ==
    /\ pc = "write" /\ i = Len(outputs) /\ i < Len(candidates)
    /\ outputs' = Append(outputs,
                    [path |-> IF opts.output THEN Path(i) ELSE NULL,
                     compressor_bytes |-> candidates[i + 1],
                     measured |-> Measurement(i)])
    /\ candidates' = [candidates EXCEPT ![i + 1] = Moved]
    /\ pc' = IF opts.output THEN "open" ELSE "write"
    /\ UNCHANGED << size, files, selectVars, emitted, boundVars >>

OpenFile ==
    /\ pc = "open"
    /\ files' = [files EXCEPT ![outputs[Len(outputs)].path] = Part]
    /\ pc' = "fill"
    /\ UNCHANGED << size, selectVars, candidates, outputs, emitted, boundVars >>

WriteFile ==
    /\ pc = "fill"
    /\ LET out == outputs[Len(outputs)]
       IN  \E bytes \in {out.compressor_bytes} \cup (IF TailCanBeLost THEN {Part} ELSE {}) :
              files' = [files EXCEPT ![out.path] = bytes]
    /\ pc' = "write"
    /\ UNCHANGED << size, selectVars, candidates, outputs, emitted, boundVars >>

\* The search, a benchmark with its files, or WriteFile fails.
TrainFails == pc \in {"search", "write", "open", "fill"} /\ Throw

TrainReturns ==
    /\ pc = "write" /\ Len(outputs) = Len(candidates)
    /\ pc' = "returned"
    /\ candidates' = << >>
    /\ UNCHANGED << size, files, selectVars, outputs, emitted, boundVars >>

ProcessDies ==
    /\ pc # "idle"
    /\ pc' = "idle"
    /\ sized' = << >> /\ selected' = {}
    /\ candidates' = << >> /\ outputs' = << >> /\ emitted' = << >>
    /\ UNCHANGED << size, files, boundVars >>

-----------------------------------------------------------------------------
(* Execution: one vector of rows after another.                            *)

OpenzlTrainInitGlobal ==
    /\ pc = "returned" /\ emitted # << >>
    /\ emitted' = << >>
    /\ UNCHANGED << size, files, pc, selectVars, candidates, outputs, boundVars >>

Row(k) ==
    [candidate_index |-> k - 1, output_path |-> outputs[k].path,
     compressor_bytes |-> outputs[k].compressor_bytes,
     measured |-> outputs[k].measured]

\* Mutant of offset: it is not kept from one vector to the next.
offsetForgotten == 0

offset == Len(emitted)

OpenzlTrainFunction ==
    LET count == Min({VectorSize, Len(outputs) - offset})
    IN  /\ pc = "returned" /\ count > 0
        /\ emitted' = emitted \o [k \in 1 .. count |-> Row(offset + k)]
        /\ UNCHANGED << size, files, pc, selectVars, candidates, outputs, boundVars >>

TrainNext ==
    \/ \E f \in Samples, n \in Sizes \cup {NoFile} : Replace(f, n)
    \/ \E o \in Options : OpenzlTrainBind(o)
    \/ SelectSamplePath \/ SelectionEnds \/ SelectionFails
    \/ ReadSamples \/ ReadFails
    \/ \E n \in 1 .. MaxCandidates : Search(n)
    \/ \E i \in 0 .. MaxCandidates - 1 : TakeCandidate(i)
    \/ OpenFile \/ WriteFile \/ TrainReturns \/ TrainFails
    \/ OpenzlTrainInitGlobal \/ OpenzlTrainFunction
    \/ ProcessDies

TrainSpec == TrainInit /\ [][TrainNext]_trainVars

-----------------------------------------------------------------------------
\* Files hold whole candidates or a part of one, and nothing of a bind that
\* has ended is left but its rows.
TrainTypeOK ==
    /\ size \in [Samples -> Sizes \cup {NoFile}]
    /\ files \in [Outputs -> Bytes \cup {Part, NoFile}]
    /\ run \in 0 .. MaxStatements /\ opts \in Options
    /\ pc \in {"idle", "select", "read", "search", "write", "open", "fill",
               "returned", "threw"}
    /\ sized \in Seq(Sizes \cup {SizeMax}) /\ selected \subseteq DOMAIN sized
    /\ pc \notin {"select", "read"} => sized = << >>
    /\ candidates \in Seq(Bytes \cup {Moved})
    /\ pc \notin {"write", "open", "fill"} => candidates = << >>
    /\ Len(outputs) <= MaxCandidates /\ Len(emitted) <= Len(outputs)

\* The samples are those that the limits ask for, by the sizes they had when
\* they were looked at: of the files that are not too large, in their order,
\* as many as the number and the total allow, and one in any case.
SelectionIsMaximalPrefix ==
    pc = "read" =>
        LET eligible == { k \in DOMAIN sized : sized[k] <= max_file }
            full     == Cardinality(selected) = opts.num_samples
        IN  /\ selected # {} /\ selected \subseteq eligible
            /\ \A j \in eligible, k \in selected : j < k => j \in selected
            /\ opts.num_samples > 0 => Cardinality(selected) <= opts.num_samples
            /\ total <= max_total \/ Cardinality(selected) = 1
            /\ \/ full
               \/ Len(sized) = Len(sample_paths) /\ selected = eligible
               \/ total + sized[Len(sized)] > max_total
                  /\ eligible \ selected = {Len(sized)}

\* What the files hold once the first n candidates are written.
Written(n) ==
    [p \in Outputs |->
        IF opts.output /\ \E i \in 0 .. n - 1 : Path(i) = p
        THEN << run, IF p = Single THEN 0 ELSE p >> ELSE before[p]]

\* The files change in the order of the candidates, each once: whenever the
\* run stops, by an error or a crash, the first files are new and whole, at
\* most one is a part, and those after it are as they were.
FilesFollowCandidates ==
    \E n \in 0 .. MaxCandidates :
        /\ pc = "returned" => n = Len(outputs)
        /\ \/ files = Written(n)
           \/ /\ pc # "returned" /\ n < MaxCandidates /\ opts.output
              /\ files = [Written(n) EXCEPT ![Path(n)] = Part]

\* Every execution returns the candidates in order, none left out or
\* repeated at the end of a vector; a row has the bytes of its candidate and
\* the measurements of those bytes, and its file holds them.
RowsFollowCandidates ==
    \A k \in DOMAIN emitted :
        LET row == emitted[k]
        IN  /\ row.candidate_index = k - 1
            /\ row.compressor_bytes = << run, k - 1 >>
            /\ row.measured = IF do_benchmark THEN row.compressor_bytes ELSE NULL
            /\ row.output_path # NULL =>
                  files[row.output_path] = row.compressor_bytes

\* The rows and the files of a run tell of the same candidates.
CandidatesAreDelivered == FilesFollowCandidates /\ RowsFollowCandidates
=============================================================================
