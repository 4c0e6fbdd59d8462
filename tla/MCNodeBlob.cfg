SPECIFICATION Spec
CONSTANTS
    c1 = c1
    a1 = a1
    a2 = a2
    x1 = x1
    g1 = g1
    t1 = t1
    p1 = p1
    p2 = p2
    Records = {c1, a1}
    Txs = {t1}
    Kind <- MCKind
    Tx <- MCTx
    Invalid = {}
    Undecodable = {}
    Unhandled = {}
    Offloaded = {c1}
    Threshold = 1
    Capacity = 1
    Passes = {p1}
    MaxFaults = 2
    MaxRestarts = 1
INVARIANT OnlyInvalidRefused
