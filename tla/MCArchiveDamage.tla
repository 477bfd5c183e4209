--------------------------- MODULE MCArchiveDamage ---------------------------
(* Two archives of the writer's layout, with chunks of one to three bytes.  *)
EXTENDS ArchiveDamage

TwoChunks ==
    PutWords(
        PutFrame(PutFrame(PutWords(EmptyFile, << kContainerMagic >>), 1, 3), 2, 1),
        << 8, 3, 11, 1, 2, kContainerMagic >>)

OneChunk ==
    PutWords(
        PutFrame(PutWords(EmptyFile, << kContainerMagic >>), 1, 2),
        << 8, 2, 1, kContainerMagic >>)

MCArchives == {TwoChunks, OneChunk}
=============================================================================
