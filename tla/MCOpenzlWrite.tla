---------------------------- MODULE MCOpenzlWrite ----------------------------
(* Settings of interest: the defaults, each profile, an unknown one,        *)
(* permissive mode, an old format with chunks, a version that is an old one *)
(* once it is an int, with automatic chunks, and a chunk size above an int. *)
EXTENDS OpenzlWrite

Defaults == [format_version |-> NULL, profile |-> NULL, permissive |-> NULL,
             parquet_chunk_bytes |-> NULL]

MCSettings ==
    { Defaults,
      [Defaults EXCEPT !.profile = "serial"],
      [Defaults EXCEPT !.profile = "unknown"],
      [Defaults EXCEPT !.permissive = TRUE],
      [Defaults EXCEPT !.format_version = 1, !.parquet_chunk_bytes = 2],
      [Defaults EXCEPT !.format_version = 9, !.parquet_chunk_bytes = -1],
      [Defaults EXCEPT !.parquet_chunk_bytes = 5] }
=============================================================================
