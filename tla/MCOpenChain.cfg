\* An IPv6 destination in a rule, one request at a time.
CONSTANTS
    i1 = i1  i2 = i2  d1 = d1  v6 = v6  g1 = g1  t1 = t1  t2 = t2  s1 = s1
    Ips = {i1}
    Dests = {d1, v6}
    Groups = {}
    Targets <- MCTargets
    Refused <- MCRefused
    Docker = TRUE
    Base <- MCBase
    Established = Established
    Mesh = Mesh
    NoChain = NoChain
    NoScript = NoScript
    NoRow = NoRow
    NoPort = NoPort
    Server = Server
    Threads = {t1}
    Strays = {}
    Persistent = TRUE
    MaxClients = 2
    MaxRules = 2
    MaxServices = 1
    Kinds = {}
    LocalMode = FALSE
    Ops = {"add_client", "toggle_client", "add_rule", "delete_rule"}
    Faults = {}
SPECIFICATION Spec
INVARIANTS
    ChainEndsInDrop
