SPECIFICATION FairSpec
CONSTANTS
    Records = {r1, r2}
    Texts = {x, y}
    NoText = NoText
    Blank = Blank
    Hidden = Hidden
    Writers = {w1, w2}
    BackfillLimit = 1
    MaxCrashes = 2
INVARIANTS ReadyIsCurrent
PROPERTIES WaitingEnds
