\* An administrator who comments a peer out.
CONSTANTS
    k1 = k1
    k2 = k2
    a1 = a1
    a2 = a2
    n1 = n1
    mesh = mesh
    NoKey = NoKey
    NoAddr = NoAddr
    NoText = NoText
    Keys = {k1, k2}
    Addrs = {a1, a2}
    Nets = {n1}
    MeshNet = mesh
    HandLines <- CommentedOut
    MaxLines = 6
SPECIFICATION Spec
INVARIANT RegisteredSurvives
