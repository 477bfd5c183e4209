\* A word modulus of 72 is just above the size of the larger archive (60
\* bytes), so that a count or a length that is off makes the arithmetic wrap.
SPECIFICATION DamageSpec
CONSTANTS
    WordModulus = 72
    kContainerMagic = 71
    Payload = 1
    Unreadable = Unreadable
    Archives <- MCArchives
    MaxDamage = 2
INVARIANTS
    
    IndexInBounds
\* Storage that is not damaged any more just stays as it is.
CHECK_DEADLOCK FALSE
