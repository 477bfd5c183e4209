-------------------------- MODULE MCCompressOptions --------------------------
(* Settings: the defaults, another limit, an old version, the serial profile *)
(* with permissive mode, and a version that is another one once it is an     *)
(* int.  Options: none, each one alone, and those that bind must refuse.     *)
EXTENDS CompressOptions

Defaults == [format_version |-> NULL, profile |-> NULL, permissive |-> NULL,
             parquet_chunk_bytes |-> -1, max_compress_bytes |-> 2,
             chunk_size_bytes |-> 1]

MCSettings ==
    { Defaults,
      [Defaults EXCEPT !.max_compress_bytes = 1],
      [Defaults EXCEPT !.format_version = 1],
      [Defaults EXCEPT !.profile = "serial", !.permissive = TRUE],
      [Defaults EXCEPT !.format_version = 10, !.parquet_chunk_bytes = 2] }

NoOptions == [format_version |-> NULL, profile |-> NULL, permissive |-> NULL,
              parquet_chunk_bytes |-> NULL, compression |-> NULL,
              chunk_size_bytes |-> NULL,
              trained_compressor |-> FALSE, fallback_to_generic |-> FALSE]

Trained == [NoOptions EXCEPT !.trained_compressor = TRUE]

MCCopyOptions ==
    { NoOptions,
      [NoOptions EXCEPT !.compression = "zstd"],
      [NoOptions EXCEPT !.format_version = 2, !.parquet_chunk_bytes = 3],
      [NoOptions EXCEPT !.format_version = 10],
      [NoOptions EXCEPT !.parquet_chunk_bytes = 0],
      [NoOptions EXCEPT !.parquet_chunk_bytes = -1],
      [NoOptions EXCEPT !.chunk_size_bytes = -1],
      [NoOptions EXCEPT !.profile = "serial", !.fallback_to_generic = TRUE],
      [NoOptions EXCEPT !.profile = "unknown"],
      Trained,
      [Trained EXCEPT !.permissive = FALSE, !.profile = "parquet"],
      [Trained EXCEPT !.fallback_to_generic = TRUE, !.format_version = 1] }

\* Compressors trained without chunks and with, and bytes that are none.
MCCompressors == { << 0 >>, << 1 >>, << Error >> }
=============================================================================
