\* A client moves to an address that another client has.
CONSTANTS
    i1 = i1  i2 = i2  d1 = d1  v6 = v6  g1 = g1  t1 = t1  t2 = t2  s1 = s1
    Ips = {i1, i2}
    Dests = {d1}
    Groups = {}
    Targets <- MCTargets
    Refused <- MCRefused
    Docker = TRUE
    Base <- MCBase
    Established = Established
    Mesh = Mesh
    NoChain = NoChain
    NoScript = NoScript
    NoRow = NoRow
    NoPort = NoPort
    Server = Server
    Threads = {t1}
    Strays = {}
    Persistent = TRUE
    MaxClients = 2
    MaxRules = 1
    MaxServices = 1
    Kinds = {}
    LocalMode = FALSE
    Ops = {"add_client", "set_client_wg_ip", "apply_single"}
    Faults = {}
SYMMETRY MCSymmetry
SPECIFICATION Spec
INVARIANTS
    RefusedMeansUnchanged
