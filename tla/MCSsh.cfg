\* EXEC_MODE=ssh: timeouts, late scripts, reboots of the server; liveness.
CONSTANTS
    i1 = i1  i2 = i2  d1 = d1  v6 = v6  g1 = g1  t1 = t1  t2 = t2  s1 = s1
    Ips = {i1}
    Dests = {v6}
    Groups = {}
    Targets <- MCTargets
    Refused <- MCRefused
    Docker = FALSE
    Base <- MCBase
    Established = Established
    Mesh = Mesh
    NoChain = NoChain
    NoScript = NoScript
    NoRow = NoRow
    NoPort = NoPort
    Server = Server
    Threads = {t1}
    Strays = {s1}
    Persistent = TRUE
    MaxClients = 1
    MaxRules = 1
    MaxServices = 1
    Kinds = {}
    LocalMode = FALSE
    Ops = {"add_client", "toggle_client", "add_rule", "delete_client", "cleanup"}
    Faults = {"probe", "timeout", "restart", "reboot"}
SPECIFICATION LiveSpec
INVARIANTS
    SettledStaysEnforced
PROPERTIES
    TargetSpec
    RequestsEnd
