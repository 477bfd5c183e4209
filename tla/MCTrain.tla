------------------------------- MODULE MCTrain -------------------------------
(* A list that names one file twice, and limits that bind one at a time, a   *)
(* frontier with and without files and benchmarks, and a single compressor.  *)
EXTENDS Train

CONSTANTS s1, s2

MCPaths == << s1, s2, s1 >>

MCOptions ==
    LET default == [num_samples |-> 0, max_file_size_mb |-> 0,
                    max_total_size_mb |-> 0, pareto_frontier |-> FALSE,
                    benchmark |-> NULL, output |-> TRUE]
        frontier == [default EXCEPT !.pareto_frontier = TRUE]
    IN  { [default EXCEPT !.benchmark = TRUE],
          [default EXCEPT !.num_samples = 2],
          [frontier EXCEPT !.max_total_size_mb = 3],
          [frontier EXCEPT !.max_file_size_mb = 2, !.max_total_size_mb = 1],
          [frontier EXCEPT !.max_file_size_mb = 2, !.output = FALSE,
                           !.benchmark = FALSE] }
=============================================================================
