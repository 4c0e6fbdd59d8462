SPECIFICATION Spec
CONSTANTS
    c1 = c1
    a1 = a1
    a2 = a2
    x1 = x1
    g1 = g1
    t1 = t1
    p1 = p1
    p2 = p2
    Records = {c1, a1, a2, x1}
    Txs = {t1}
    Kind <- MCKind
    Tx <- MCTx
    Invalid = {x1}
    Undecodable = {}
    Unhandled = {}
    Offloaded = {}
    Threshold = 2
    Capacity = 1
    Passes = {p1, p2}
    MaxFaults = 3
    MaxRestarts = 0
SYMMETRY Symmetry
INVARIANTS TypeOK NothingForgotten RetryStaysArmed
