\* Two breaches are enough for one to wait in both snapshots while the other is
\* being sent; level 2 is enough for a level to be overwritten by an older one.
SPECIFICATION FairSequencesSpec
CONSTANTS
    Breaches = {b1, b2}
    MaxLevel = 2
INVARIANTS
    SequencesInvariant
PROPERTIES
    EscalationGoesOn
    ImplementsEscalation
CHECK_DEADLOCK FALSE
