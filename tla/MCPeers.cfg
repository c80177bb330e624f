\* One administrator: every request, every fault, every kind of config.
CONSTANTS
    k1 = k1
    k2 = k2
    a1 = a1
    a2 = a2
    n1 = n1
    mesh = mesh
    t1 = t1
    t2 = t2
    NoKey = NoKey
    NoAddr = NoAddr
    NoRow = NoRow
    NoFile = NoFile
    Keys = {k1, k2}
    Addrs = {a1, a2}
    Nets = {n1}
    MeshNet = mesh
    Threads = {t1}
    HandMade <- MCHandMade
    Ops = {"provision_register", "set_client_networks", "import_peers", "add_client", "set_client_kind",
           "set_client_wg_ip", "provision_desktop_config", "suggest_free_ip"}
    MaxRequests = 3
    Faults = {"command", "read", "reboot"}
SPECIFICATION Spec
INVARIANT TypeOK
INVARIANT RegisteredAsReported
INVARIANT SuccessMeansPersisted
INVARIANT ImportComplete
INVARIANT KernelMatchesFile
PROPERTY OthersUntouched
