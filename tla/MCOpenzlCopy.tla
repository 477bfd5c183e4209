---------------------------- MODULE MCOpenzlCopy ----------------------------
EXTENDS OpenzlCopy

CONSTANTS a, b

Option(m, s, t, f) == [in_memory |-> m, chunk_size_bytes |-> s,
                       trained |-> t, fallback_to_generic |-> f]

MCCopies == {a, b}

\* One COPY with every option: in memory and on disk, one chunk and several,
\* with a trained compressor and without, and with the fallback to the generic
\* graph and without.  The other shares the buffers and the fallback count.
MCOptions ==
    a :> {Option(m, s, t, f) : m \in BOOLEAN, s \in {0, 1, 2}, t \in BOOLEAN, f \in BOOLEAN}
    @@ b :> {Option(TRUE, 0, TRUE, TRUE)}
=============================================================================
