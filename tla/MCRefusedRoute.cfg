\* The kernel refuses a route.  After MaxRequests requests nobody makes another one: not a deadlock.
CONSTANTS
    k1 = k1
    k2 = k2
    a1 = a1
    a2 = a2
    n1 = n1
    mesh = mesh
    t1 = t1
    t2 = t2
    NoKey = NoKey
    NoAddr = NoAddr
    NoRow = NoRow
    NoFile = NoFile
    Keys = {k1, k2}
    Addrs = {a1, a2}
    Nets = {n1}
    MeshNet = mesh
    Threads = {t1}
    HandMade <- MCTwoPeers
    Ops = {"set_client_networks", "add_client"}
    MaxRequests = 2
    Faults = {"command"}
SPECIFICATION Spec
INVARIANT SuccessMeansRouted
CHECK_DEADLOCK FALSE
