\* Two administrators at work on the networks of one router, nothing fails.
\* After MaxRequests requests nobody makes another one: not a deadlock.
CONSTANTS
    k1 = k1
    k2 = k2
    a1 = a1
    a2 = a2
    n1 = n1
    mesh = mesh
    t1 = t1
    t2 = t2
    NoKey = NoKey
    NoAddr = NoAddr
    NoRow = NoRow
    NoFile = NoFile
    Keys = {k1, k2}
    Addrs = {a1, a2}
    Nets = {n1}
    MeshNet = mesh
    Threads = {t1, t2}
    HandMade <- MCRouter
    Ops = {"set_client_networks", "import_peers"}
    MaxRequests = 3
    Faults = {}
SPECIFICATION Spec
INVARIANT StoredNetworksAreLive
CHECK_DEADLOCK FALSE
