SPECIFICATION Spec
CONSTANTS
    r1 = r1
    r2 = r2
    w1 = w1
    w2 = w2
    Recipients = {r1, r2}
    Sweeps = {w1, w2}
INVARIANTS
    TypeOK
    EveryoneWasTried
PROPERTIES
    RepeatOnlyByRaceOrFailure
    DueIsHandedOn
