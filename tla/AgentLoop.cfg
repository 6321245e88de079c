SPECIFICATION Spec
CONSTANTS
    Keyed = {k1, k2}
    Delegates = {d1}
    Keys = {a, b}
    Inputs = {x, y}
    MaxTurns = 1
    MaxTools = 1
    MaxInvocations = 2
    None = None
SYMMETRY Symmetry
INVARIANTS
    SoleDriver
    DetachedToolKeepsRun
    EffectsOnce
PROPERTIES
    ReceiptFinal
CHECK_DEADLOCK FALSE
