---------------------------- MODULE ArchiveDamage ----------------------------
(***************************************************************************)
(* A multi-chunk archive at rest whose words are overwritten and whose end *)
(* is cut off: the files ReadContainerIndex has to survive.  The storage   *)
(* is external; the functions that read the file are ChunkContainer's.     *)
(***************************************************************************)
EXTENDS ChunkContainer

CONSTANTS
    Archives,    \* the archives at rest to begin with
    MaxDamage    \* bound: how many times an archive is damaged

ASSUME DamageAssumption ==
    /\ MaxDamage \in Nat
    /\ \A f \in Archives :
          /\ f.size \in Word
          /\ f.words \in [DOMAIN f.words -> Word]
          /\ f = [size |-> f.size, words |-> f.words, frames |-> f.frames]

VARIABLES
    file,     \* the archive on disk
    damage    \* how many times it has been damaged

damageVars == << file, damage >>

DamageInit ==
    /\ file \in Archives
    /\ damage = 0

Overwrite(p, w) ==
    /\ damage < MaxDamage
    /\ p \in DOMAIN file.words
    /\ file' = [file EXCEPT !.words = [@ EXCEPT ![p] = w]]
    /\ damage' = damage + 1

Truncate(n) ==
    /\ damage < MaxDamage
    /\ n < file.size
    /\ file' = Prefix(file, n)
    /\ damage' = damage + 1

DamageNext ==
    \/ \E p \in DOMAIN file.words, w \in Word : Overwrite(p, w)
    \/ \E n \in Word : Truncate(n)

DamageSpec == DamageInit /\ [][DamageNext]_damageVars

-----------------------------------------------------------------------------

DamageTypeOK ==
    /\ damage \in 0 .. MaxDamage
    /\ file.size \in Word
    /\ file.words \in [DOMAIN file.words -> Word]

\* An index that ReadContainerIndex accepts names only bytes between the
\* magic and the index, and the index and trailer fill the file to its end:
\* no uint64_t subtraction or multiplication in the checks has wrapped, and
\* no chunk read can leave the file, whatever the words say.
IndexInBounds ==
    Verdict(file) = "index" =>
        /\ IndexStart(file) + 16 * Count(file) + 16 = file.size
        /\ \A i \in 1 .. Count(file) :
              LET r == ChunkRange(file, i)
              IN  /\ kMagicLen <= r.offset
                  /\ r.offset + r.length <= IndexStart(file)
=============================================================================
