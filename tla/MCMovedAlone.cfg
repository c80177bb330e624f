\* A config that cannot be read, once.
CONSTANTS
    k1 = k1
    k2 = k2
    a1 = a1
    a2 = a2
    n1 = n1
    mesh = mesh
    t1 = t1
    t2 = t2
    NoKey = NoKey
    NoAddr = NoAddr
    NoRow = NoRow
    NoFile = NoFile
    Keys = {k1, k2}
    Addrs = {a1, a2}
    Nets = {n1}
    MeshNet = mesh
    Threads = {t1}
    HandMade <- MCRouter
    Ops = {"set_client_wg_ip", "import_peers"}
    MaxRequests = 2
    Faults = {"read"}
SPECIFICATION Spec
INVARIANT NoPeerToMove
