\* Two requests at a time for one client, nothing else goes wrong.
CONSTANTS
    i1 = i1  i2 = i2  d1 = d1  v6 = v6  g1 = g1  t1 = t1  t2 = t2  s1 = s1
    Ips = {i1}
    Dests = {d1}
    Groups = {}
    Targets <- MCTargets
    Refused <- MCRefused
    Docker = TRUE
    Base <- MCBase
    Established = Established
    Mesh = Mesh
    NoChain = NoChain
    NoScript = NoScript
    NoRow = NoRow
    NoPort = NoPort
    Server = Server
    Threads = {t1, t2}
    Strays = {}
    Persistent = TRUE
    MaxClients = 1
    MaxRules = 2
    MaxServices = 1
    Kinds = {}
    LocalMode = FALSE
    Ops = {"add_client", "add_rule", "delete_rule"}
    Faults = {}
SYMMETRY MCSymmetry
SPECIFICATION Spec
INVARIANTS
    AppliedRulesStand
