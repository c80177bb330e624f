\* EXEC_MODE=local: restarts, reboots, timeouts and lost probes.
CONSTANTS
    i1 = i1  i2 = i2  d1 = d1  v6 = v6  g1 = g1  t1 = t1  t2 = t2  s1 = s1
    Ips = {i1, i2}
    Dests = {v6}
    Groups = {}
    Targets <- MCTargets
    Refused <- MCRefused
    Docker = TRUE
    Base <- MCBase
    Established = Established
    Mesh = Mesh
    NoChain = NoChain
    NoScript = NoScript
    NoRow = NoRow
    NoPort = NoPort
    Server = Server
    Threads = {t1}
    Strays = {}
    Persistent = TRUE
    MaxClients = 2
    MaxRules = 1
    MaxServices = 1
    Kinds = {}
    LocalMode = TRUE
    Ops = {"add_client", "add_rule", "apply_all"}
    Faults = {"probe", "timeout", "restart", "reboot"}
SYMMETRY MCSymmetry
SPECIFICATION Spec
INVARIANTS
    SettledStaysEnforced
PROPERTIES
    TargetSpec
