\* An administrator who writes headers as the app does and comments nothing out.
CONSTANTS
    k1 = k1
    k2 = k2
    a1 = a1
    a2 = a2
    n1 = n1
    mesh = mesh
    NoKey = NoKey
    NoAddr = NoAddr
    NoText = NoText
    Keys = {k1, k2}
    Addrs = {a1, a2}
    Nets = {n1}
    MeshNet = mesh
    HandLines <- Tidy
    MaxLines = 5
SPECIFICATION Spec
INVARIANT ParserReadsBlocks
INVARIANT RewriteActsOnBlocks
INVARIANT RegisterActsOnBlocks
INVARIANT TextInv
INVARIANT RegisteredSurvives
INVARIANT OtherPeersKept
